---- MODULE Spec2Model ----
(***************************************************************************)
(* Model of extractfogospt:                                                 *)
(*   - KML polygon extraction and largest-polygon selection                *)
(*     (gt90json.py, copied in imagens.py and main.py),                    *)
(*   - viewport padding and zoom (imagens.py / main.py plot_with_basemap), *)
(*   - the incident record normalizers of video.py,                        *)
(*   - the runs of gt90json.main, imagens.main and video.main,             *)
(*   - the downloads (fetch_kml_if_url, get_with_retries).                 *)
(*                                                                         *)
(* The specifications share the variables; each leaves the variables of    *)
(* the other components at their idle values:                              *)
(*   SpecGeo    one incident's KML through extract -> choose_largest       *)
(*   SpecView   successive plot_with_basemap viewport computations         *)
(*   SpecName   safe_get_name on one raw record                            *)
(*   SpecInt    safe_get_int on one raw record                             *)
(*   SpecTime   safe_get_time on one raw record                            *)
(*   SpecFetch  gt90json.fetch_kml_if_url on one kml field                 *)
(*   SpecRun    gt90json.main over one API response                        *)
(*   SpecRetry  get_with_retries for one URL                               *)
(*   SpecVideo  video.main over one INPUT_JSON                             *)
(*   SpecIcon   successive load_icon_img calls                             *)
(*   SpecImg    imagens.main over one API response                         *)
(*   SpecCopies the copies of the geometry core on one input               *)
(***************************************************************************)
EXTENDS Integers, Sequences, FiniteSets, TLC

VARIABLES
    \* ---- geometry pipeline (gt90json.py) ----
    pc,            \* position in the pipeline of one incident
    kml_string,    \* the KML text handed to extract_polygons_from_kml_string
    coords_nodes,  \* result of the findall calls: indices of the selected nodes
    ntokens,       \* tokens of the document read so far
    t,             \* the token handled by the last iteration of `for t in tokens`
    poly,          \* the list `poly` of the coordinate node being handled
    polygons,      \* the list `polygons` being built / returned
    raises,        \* rings on which Polygon()/transform raise (library outcome)
    main_poly,     \* result of choose_largest_polygon
    exc,           \* exception that reached the caller, "none" if none
    \* ---- viewport (imagens.py plot_with_basemap) ----
    total_bounds,  \* (minx, miny, maxx, maxy) of the projected polygon
    bbox,          \* the padded bounding box
    zoom,          \* result of compute_zoom_from_bbox_meters, 0 before the first plot
    prev_span,     \* padded span of the previous call
    prev_zoom,     \* zoom of the previous call, 0 if there was none
    \* ---- normalizer (video.py) ----
    npc,           \* "start" before the record is normalized, "done" after
    rec,           \* the raw incident mapping
    name,          \* result of safe_get_name, as the list of its pieces
    keys,          \* the argument `keys` of safe_get_int
    num,           \* result of safe_get_int
    nerr,          \* exception that left safe_get_int or safe_get_time, "none" if none
    tempo,         \* result of safe_get_time
    ts_fail,       \* epochs on which datetime.fromtimestamp raises (platform outcome)
    \* ---- the run over the API response (gt90json.py main) ----
    rpc,           \* "filter", "loop", "written", or "crashed" by an uncaught exception
    data,          \* resp["data"]: the incidents of the API response
    ri,            \* position of the running `for inc in ...` loop
    candidatos,    \* positions in data of the incidents kept by the filter
    registos,      \* the records built so far
    rexc,          \* the exception that ended the run, "none" if none
    total,         \* resultado["total"], 0 before the summary is written
    last_kml,      \* kml_string of the incident handled last
    polys,         \* rings extracted for the incident handled last
    area_fails,    \* rings of polys on which the area computation raises
    xexc,          \* exception caught by the try at line 300, "none" if none
    main_polys,    \* per record of registos: the ring selected, <<>> if none
    \* ---- the network (gt90json.py fetch_kml_if_url, get_with_retries) ----
    fpc,           \* "start" before fetch_kml_if_url runs, "done" after
    maybe_url_or_kml, \* the argument of fetch_kml_if_url, as its characters
    download,      \* what get_with_retries does for this URL: the text or an exception
    kml_text,      \* result of fetch_kml_if_url, as its characters
    fexc,          \* exception that left fetch_kml_if_url, "none" if none
    gpc,           \* get_with_retries: "request", "returned" or "raised"
    max_retries,   \* the argument max_retries
    attempt,       \* the local `attempt`
    gets,          \* number of SESSION.get calls issued
    status,        \* status code of the last response, 0 if there was none
    wait,          \* seconds of the last time.sleep, 0 if there was none
    gexc,          \* exception that left get_with_retries, "none" if none
    \* ---- the video (video.py main, load_icon_img) ----
    vpc,           \* "start", "summary", "loop", then "written" or "returned" (no video)
    resumo,        \* RESUMO_JSON: is it a file, can it be read, the JSON value in it
    summary,       \* the local `summary` of main
    vdata,         \* the list returned by load_incidents_from_json
    incidents,     \* the filtered and sorted list, as positions in vdata
    vi,            \* position of `for idx, rec in enumerate(incidents, start=1)`
    all_frames,    \* the list all_frames
    emoji,         \* per file of EMOJI_FILES: "missing", "corrupt" or "ok"
    ICON_CACHE,    \* _ICON_CACHE: per key -1 if absent, else the cached height (0 for None)
    icon_key,      \* the argument key of the last load_icon_img call, "" before the first
    target_height, \* the argument target_height of that call
    icon,          \* height of the image that call returned, 0 for None
    \* ---- the images (imagens.py main) ----
    ipc,           \* "filter", "loop", "done"
    idata,         \* resp["data"]: the incidents of the API response
    total_candidatos, \* len(candidatos) after the filter
    icandidatos,   \* the list candidatos, as positions in idata
    ii,            \* position of `for inc in candidatos`
    imagens_criadas, \* the list imagens_criadas
    ignorados,     \* the list ignorados of (id, motivo)
    handled,       \* per candidate handled: the locals kml_string, polygons, main_poly
    \* ---- the three copies of the geometry core, called on the same input ----
    cpc,           \* "kml" or "bbox" before the calls, then "extracted", "chosen" or "zoomed"
    doc,           \* the KML text given to the three extract_polygons_from_kml_string
    ext,           \* per module, what its extract_polygons_from_kml_string does with doc
    cfails,        \* rings on which Polygon()/transform raise (library outcome)
    sel,           \* per module, the result of its choose_largest_polygon on ext
    cbox,          \* the bounding box given to the two compute_zoom_from_bbox_meters
    czoom          \* per module, the zoom returned for cbox

geoVars  == <<pc, kml_string, coords_nodes, ntokens, t, poly, polygons, raises, main_poly, exc>>
viewVars == <<total_bounds, bbox, zoom, prev_span, prev_zoom>>
nameVars == <<npc, rec, name, keys, num, nerr, tempo, ts_fail>>
runVars  == <<rpc, data, ri, candidatos, registos, rexc, total, last_kml, polys,
             area_fails, xexc, main_polys>>
netVars  == <<fpc, maybe_url_or_kml, download, kml_text, fexc, gpc, max_retries, attempt, gets, status, wait, gexc>>
videoVars == <<vpc, resumo, summary, vdata, incidents, vi, all_frames, emoji, ICON_CACHE, icon_key, target_height, icon>>
imgVars  == <<ipc, idata, total_candidatos, icandidatos, ii, imagens_criadas, ignorados, handled>>
copyVars == <<cpc, doc, ext, cfails, sel, cbox, czoom>>
vars     == <<geoVars, viewVars, nameVars, runVars, netVars, videoVars, imgVars, copyVars>>

----------------------------------------------------------------------------
(* Bounds of the model *)
MaxNodes  == 2   \* <coordinates> elements in one document
MaxTokens == 6   \* whitespace separated tokens in one document

RangeOf(s) == { s[i] : i \in 1..Len(s) }

RECURSIVE SeqsUpTo(_, _)
SeqsUpTo(S, n) ==
    IF n = 0 THEN { <<>> }
    ELSE LET shorter == SeqsUpTo(S, n - 1)
         IN  shorter \cup { Append(s, x) : s \in { u \in shorter : Len(u) = n - 1 }, x \in S }

----------------------------------------------------------------------------
(* KML text.  A text is described by what xml.etree does with it:          *)
(*   "empty"     the empty string                                          *)
(*   "surrogate" a str holding a lone surrogate: XMLParser.feed cannot     *)
(*               encode it and raises UnicodeEncodeError                   *)
(*   "malformed" not well-formed, ParseError with or without strip()       *)
(*   "ws_xml"    well-formed but with white space before the <?xml ...?>   *)
(*               declaration: ParseError until stripped                    *)
(*   "xml"       well-formed                                               *)
(* ns lists, in document order, the namespace of every <coordinates>       *)
(* element below the root: "kml22" or "plain" (no namespace).              *)
Namespaces == { "kml22", "plain" }

KmlTexts ==
    { [kind |-> k, ns |-> <<>>] : k \in { "empty", "surrogate", "malformed" } }
    \cup { [kind |-> k, ns |-> n] : k \in { "xml", "ws_xml" }, n \in SeqsUpTo(Namespaces, MaxNodes) }

strip(s) == IF s.kind = "ws_xml" THEN [s EXCEPT !.kind = "xml"] ELSE s

\* ET.fromstring: "ok" or the exception class it raises
ET_fromstring(s) ==
    CASE s.kind = "surrogate" -> "UnicodeEncodeError"
      [] s.kind \in { "malformed", "ws_xml", "empty" } -> "ParseError"
      [] OTHER -> "ok"

\* root.findall('.//{http://www.opengis.net/kml/2.2}coordinates') and
\* root.findall('.//coordinates'): the matching nodes in document order
RECURSIVE findall(_, _, _)
findall(ns, tag_ns, i) ==
    IF i > Len(ns) THEN <<>>
    ELSE IF ns[i] = tag_ns THEN <<i>> \o findall(ns, tag_ns, i + 1)
    ELSE findall(ns, tag_ns, i + 1)

\* variant: the nodes of both searches
select_coords_nodes_both(s) ==
    findall(s.ns, "kml22", 1) \o findall(s.ns, "plain", 1)

\* lines 142-144
select_coords_nodes(s) ==
    LET namespaced == findall(s.ns, "kml22", 1)
    IN  IF namespaced = <<>> THEN findall(s.ns, "plain", 1) ELSE namespaced

----------------------------------------------------------------------------
(* Coordinate tokens.  A token is the list t.split(','); float() is        *)
(* modelled on the few strings the model uses.                             *)
FloatStrings == { "0", "2" }
float(s) == CASE s = "0" -> 0 [] s = "2" -> 2
float_raises(s) == s \notin FloatStrings

Tokens ==
    { <<"0", "0">>,          \* lon,lat
      <<"2", "0", "9">>,     \* lon,lat,alt
      <<"2", "2", "z">>,     \* lon,lat and an altitude that is no number
      <<"x", "2">>,          \* longitude is no number
      <<"7">> }              \* a single field

NoToken == <<>>            \* no token read yet

\* variant: only tokens of exactly two parts are points
parse_token_exact2(parts, poly_in) ==
    IF Len(parts) = 2 /\ ~float_raises(parts[1]) /\ ~float_raises(parts[2])
    THEN Append(poly_in, <<float(parts[1]), float(parts[2])>>)
    ELSE poly_in

\* lines 153-159: the body of `for t in tokens`
parse_token(parts, poly_in) ==
    IF Len(parts) >= 2
    THEN IF float_raises(parts[1]) \/ float_raises(parts[2])
         THEN poly_in                                        \* except ValueError: continue
         ELSE Append(poly_in, <<float(parts[1]), float(parts[2])>>)
    ELSE poly_in

MinRingPoints == 3

\* lines 160: is the parsed list long enough to be kept
ring_kept(p) == Len(p) >= MinRingPoints

\* variant: always append the first point
close_ring_always(p) == Append(p, p[1])

\* lines 161-162: close the ring
close_ring(p) == IF p[1] # p[Len(p)] THEN Append(p, p[1]) ELSE p

----------------------------------------------------------------------------
(* Area.  EPSG:4326 -> EPSG:3857 on the degrees the model uses, in km      *)
(* (x = R*lon, y = R*ln(tan(pi/4 + lat/2)), R = 6378.137 km, rounded), and *)
(* the planar polygon area of the projected ring.  polygon_area_km2        *)
(* yields TWICE the area in km2 so that it stays an integer; the factor    *)
(* scales every area alike and best_area's initial -1.0 is -2 here.        *)
transform(pt) ==
    <<pt[1] * 111,
      CASE pt[2] = 0 -> 0 [] pt[2] = 1 -> 111 [] pt[2] = 2 -> 223 [] OTHER -> 334>>

RECURSIVE shoelace(_, _)
shoelace(ring, i) ==
    IF i >= Len(ring) THEN 0
    ELSE ring[i][1] * ring[i + 1][2] - ring[i + 1][1] * ring[i][2] + shoelace(ring, i + 1)

Abs(x) == IF x < 0 THEN -x ELSE x

polygon_area_raises(coords, R) == coords \in R

\* variant: the signed area
polygon_area_km2_signed(coords) ==
    LET poly_m == [i \in 1..Len(coords) |-> transform(coords[i])]
    IN  shoelace(poly_m, 1)

\* lines 166-170; Polygon.area is the unsigned area of the ring
polygon_area_km2(coords) ==
    LET poly_m == [i \in 1..Len(coords) |-> transform(coords[i])]
    IN  Abs(shoelace(poly_m, 1))

----------------------------------------------------------------------------
(* choose_largest_polygon, lines 172-183.  best is <<>> for None and <<p>> *)
(* for a ring p.                                                           *)
\* variant: start from the first candidate instead of None
InitialBest_first(ps) == IF ps = <<>> THEN <<>> ELSE <<ps[1]>>

InitialBest(ps) == <<>>                      \* line 173

InitialBestArea == -2                        \* line 174 (-1.0 km2)

\* variant: a later ring of equal area replaces the current best
IsLarger_ge(a, best_area) == a >= best_area

\* variant: the comparison is reversed
IsLarger_lt(a, best_area) == a < best_area

IsLarger(a, best_area) == a > best_area      \* line 178

\* variant: the first failing ring ends the loop (break)
AfterAreaError_break(i, n) == n + 1

AfterAreaError(i, n) == i + 1                \* lines 181-182: continue

RECURSIVE choose_loop(_, _, _, _, _)
choose_loop(ps, i, best, best_area, R) ==
    IF i > Len(ps) THEN best
    ELSE LET p == ps[i]
         IN  IF polygon_area_raises(p, R)
             THEN choose_loop(ps, AfterAreaError(i, Len(ps)), best, best_area, R)
             ELSE LET a == polygon_area_km2(p)
                  IN  IF IsLarger(a, best_area)
                      THEN choose_loop(ps, i + 1, <<p>>, a, R)
                      ELSE choose_loop(ps, i + 1, best, best_area, R)

\* variant: best_area starts at 0 instead of -1.0
choose_largest_polygon_from_zero(ps, R) ==
    LET best == choose_loop(ps, 1, InitialBest(ps), InitialBestArea + 2, R)
    IN  IF best = <<>> \/ best[1] = <<>> THEN <<>> ELSE best[1]

choose_largest_polygon(ps, R) ==
    LET best == choose_loop(ps, 1, InitialBest(ps), InitialBestArea, R)
    IN  IF best = <<>> \/ best[1] = <<>> THEN <<>> ELSE best[1]   \* best or []

----------------------------------------------------------------------------
(* The pipeline of one incident, gt90json.main lines 299-304.              *)

IdleView == /\ total_bounds = <<0, 0, 0, 0>>
            /\ bbox = <<0, 0, 0, 0>>
            /\ zoom = 0
            /\ prev_span = 0
            /\ prev_zoom = 0
\* safe_get_time has not returned
NoTempo  == [kind |-> "unset", txt |-> "", txt2 |-> "", day |-> 0, month |-> 0,
             year |-> 0, hour |-> 0, minute |-> 0]
IdleInt  == /\ keys = <<>>
            /\ num = 0
            /\ nerr = "none"
IdleTime == /\ tempo = NoTempo
            /\ ts_fail = {}
IdleName == /\ npc = "idle"
            /\ rec = <<>>
            /\ name = <<>>
            /\ IdleInt
            /\ IdleTime
\* get_with_retries has not been called
NoDownload == [exc |-> "none", text |-> <<>>]
IdleNet  == /\ fpc = "idle"
            /\ maybe_url_or_kml = <<>>
            /\ download = NoDownload
            /\ kml_text = <<>>
            /\ fexc = "none"
            /\ gpc = "idle"
            /\ max_retries = 0
            /\ attempt = 0
            /\ gets = 0
            /\ status = 0
            /\ wait = 0
            /\ gexc = "none"
\* video.main has not started and no icon was asked for
NoSummary == [ty |-> "none", s |-> "", n |-> 0]      \* summary = None
NoResumo == [isfile |-> FALSE, readable |-> FALSE, json |-> NoSummary]
IdleIcon == /\ emoji = <<>>
            /\ ICON_CACHE = <<>>
            /\ icon_key = ""
            /\ target_height = 0
            /\ icon = 0
IdleMain == /\ vpc = "idle"
            /\ resumo = NoResumo
            /\ summary = NoSummary
            /\ vdata = <<>>
            /\ incidents = <<>>
            /\ vi = 0
            /\ all_frames = <<>>
IdleVideo == /\ IdleMain
             /\ IdleIcon
\* no copy of the geometry core has been called
NoDoc    == [kml |-> [kind |-> "empty", ns |-> <<>>], texts |-> <<>>]
NoResult == [exc |-> "none", polys |-> <<>>]
IdleCopies == /\ cpc = "idle"
              /\ doc = NoDoc
              /\ ext = [gt90json |-> NoResult, imagens |-> NoResult, main |-> NoResult]
              /\ cfails = {}
              /\ sel = [gt90json |-> <<>>, imagens |-> <<>>, main |-> <<>>]
              /\ cbox = <<0, 0, 0, 0>>
              /\ czoom = [imagens |-> 0, main |-> 0]
\* imagens.main has not started
IdleImg  == /\ ipc = "idle"
            /\ idata = <<>>
            /\ total_candidatos = 0
            /\ icandidatos = <<>>
            /\ ii = 0
            /\ imagens_criadas = <<>>
            /\ ignorados = <<>>
            /\ handled = <<>>
IdleRun  == /\ rpc = "idle"
            /\ data = <<>>
            /\ ri = 0
            /\ candidatos = <<>>
            /\ registos = <<>>
            /\ rexc = "none"
            /\ total = 0
            /\ last_kml = <<>>
            /\ polys = <<>>
            /\ area_fails = {}
            /\ xexc = "none"
            /\ main_polys = <<>>
IdleGeo  == /\ pc = "idle"
            /\ kml_string = [kind |-> "empty", ns |-> <<>>]
            /\ coords_nodes = <<>>
            /\ ntokens = 0
            /\ t = NoToken
            /\ poly = <<>>
            /\ polygons = <<>>
            /\ raises = {}
            /\ main_poly = <<>>
            /\ exc = "none"

InitGeo ==
    /\ pc = "start"
    /\ kml_string \in KmlTexts
    /\ coords_nodes = <<>>
    /\ ntokens = 0
    /\ t = NoToken
    /\ poly = <<>>
    /\ polygons = <<>>
    /\ raises = {}
    /\ main_poly = <<>>
    /\ exc = "none"
    /\ IdleView
    /\ IdleName
    /\ IdleRun
    /\ IdleNet
    /\ IdleVideo
    /\ IdleImg
    /\ IdleCopies

\* lines 132-144: the guards, the two parse attempts and the node lookup
ExtractParse ==
    /\ pc = "start"
    /\ LET first == ET_fromstring(kml_string)
           second == ET_fromstring(strip(kml_string))
       IN  IF kml_string.kind = "empty"
           THEN /\ pc' = "extracted"                       \* if not kml_string: return []
                /\ UNCHANGED <<coords_nodes, exc>>
           ELSE IF first = "ok" \/ (first = "ParseError" /\ second = "ok")
           THEN /\ coords_nodes' = select_coords_nodes(strip(kml_string))
                /\ pc' = "nodes"
                /\ exc' = exc
           ELSE IF first = "ParseError"
           THEN /\ pc' = "extracted"                       \* except Exception: return []
                /\ UNCHANGED <<coords_nodes, exc>>
           ELSE /\ pc' = "raised"                          \* not an ET.ParseError
                /\ exc' = first
                /\ coords_nodes' = coords_nodes
    /\ UNCHANGED <<kml_string, ntokens, t, poly, polygons, raises, main_poly>>
    /\ UNCHANGED <<viewVars, nameVars, runVars, netVars, videoVars, imgVars, copyVars>>

\* lines 147-151: the next coordinate node; a node without text is skipped,
\* otherwise its text is split and poly starts empty
NodeBegin ==
    /\ pc = "nodes"
    /\ coords_nodes # <<>>
    /\ \E text_is_none \in BOOLEAN :
          IF text_is_none
          THEN /\ coords_nodes' = Tail(coords_nodes)        \* continue
               /\ UNCHANGED <<pc, poly>>
          ELSE /\ pc' = "tokens"
               /\ poly' = <<>>
               /\ coords_nodes' = coords_nodes
    /\ UNCHANGED <<kml_string, ntokens, t, polygons, raises, main_poly, exc>>
    /\ UNCHANGED <<viewVars, nameVars, runVars, netVars, videoVars, imgVars, copyVars>>

\* lines 152-159: one iteration of `for t in tokens`; the token is read here
ReadToken ==
    /\ pc = "tokens"
    /\ ntokens < MaxTokens
    /\ \E tok \in Tokens :
          /\ t' = tok
          /\ poly' = parse_token(tok, poly)
    /\ ntokens' = ntokens + 1
    /\ UNCHANGED <<pc, kml_string, coords_nodes, polygons, raises, main_poly, exc>>
    /\ UNCHANGED <<viewVars, nameVars, runVars, netVars, videoVars, imgVars, copyVars>>

\* lines 160-163: the tokens of the node are exhausted
NodeEnd ==
    /\ pc = "tokens"
    /\ IF ring_kept(poly)
       THEN /\ poly' = close_ring(poly)                     \* poly.append(poly[0])
            /\ polygons' = Append(polygons, close_ring(poly))
       ELSE UNCHANGED <<poly, polygons>>
    /\ coords_nodes' = Tail(coords_nodes)
    /\ pc' = "nodes"
    /\ UNCHANGED <<kml_string, ntokens, t, raises, main_poly, exc>>
    /\ UNCHANGED <<viewVars, nameVars, runVars, netVars, videoVars, imgVars, copyVars>>

\* line 164: return polygons; the locals of the call are gone
ExtractReturn ==
    /\ pc = "nodes"
    /\ coords_nodes = <<>>
    /\ pc' = "extracted"
    /\ ntokens' = 0
    /\ t' = NoToken
    /\ poly' = <<>>
    /\ UNCHANGED <<kml_string, coords_nodes, polygons, raises, main_poly, exc>>
    /\ UNCHANGED <<viewVars, nameVars, runVars, netVars, videoVars, imgVars, copyVars>>

\* line 302: main_poly = choose_largest_polygon(polys)
ChooseLargest ==
    /\ pc = "extracted"
    /\ \E R \in SUBSET RangeOf(polygons) :
          /\ raises' = R
          /\ main_poly' = choose_largest_polygon(polygons, R)
    /\ pc' = "chosen"
    /\ UNCHANGED <<kml_string, coords_nodes, ntokens, t, poly, polygons, exc>>
    /\ UNCHANGED <<viewVars, nameVars, runVars, netVars, videoVars, imgVars, copyVars>>

NextGeo ==
    \/ ExtractParse
    \/ NodeBegin
    \/ ReadToken
    \/ NodeEnd
    \/ ExtractReturn
    \/ ChooseLargest

SpecGeo == InitGeo /\ [][NextGeo]_vars

----------------------------------------------------------------------------
(* Properties of the geometry pipeline *)

Succeeded == { i \in 1..Len(polygons) : polygons[i] \notin raises }
NotRaising(p) == p \notin raises

\* C1: extract_polygons_from_kml_string never raises to its caller, and for
\* an empty or unparsable text the returned sequence is empty.
C1_ExtractNeverRaises ==
    /\ pc # "raised"
    /\ exc = "none"
    /\ (pc \in { "extracted", "chosen" } /\ kml_string.kind \in { "empty", "malformed", "surrogate" }
           => polygons = <<>>)

\* C2: every ring of the output has at least 3 points and is closed; a node
\* with fewer than 3 valid points adds no ring, a node whose first and last
\* valid points differ adds its points followed by the first point once, and
\* a node whose valid points are already closed adds them unchanged.
C2_RingsClosedInv ==
    \A i \in 1..Len(polygons) :
        /\ Len(polygons[i]) >= 3
        /\ polygons[i][1] = polygons[i][Len(polygons[i])]
C2_NodeRule ==
    NodeEnd =>
        /\ Len(poly) < 3 => polygons' = polygons
        /\ Len(poly) >= 3 /\ poly[1] # poly[Len(poly)]
              => polygons' = Append(polygons, Append(poly, poly[1]))
        /\ Len(poly) >= 3 /\ poly[1] = poly[Len(poly)]
              => polygons' = Append(polygons, poly)
C2_RingsClosed == [](C2_RingsClosedInv) /\ [][C2_NodeRule]_vars

\* a node of three valid points, first and last different, has produced a
\* ring of four points ending with the first point
C2_Witness ==
    /\ pc = "nodes"
    /\ Len(polygons) = 1
    /\ Len(polygons[1]) = 4
    /\ polygons[1][3] # polygons[1][1]
    /\ polygons[1][4] = polygons[1][1]
    /\ ntokens > 3

\* C3: choose_largest_polygon returns the ring of greatest area among the
\* rings whose area computation succeeds, and among several rings of that
\* greatest area the first of the sequence.
C3_LargestFirst ==
    pc = "chosen" /\ Succeeded # {} =>
        \E k \in Succeeded :
            /\ main_poly = polygons[k]
            /\ \A j \in Succeeded :
                  /\ polygon_area_km2(polygons[j]) <= polygon_area_km2(polygons[k])
                  /\ j < k => polygon_area_km2(polygons[j]) < polygon_area_km2(polygons[k])

\* two different rings of the same positive area: the first one is returned
C3_Witness ==
    /\ pc = "chosen"
    /\ Len(polygons) = 2
    /\ raises = {}
    /\ polygons[1] # polygons[2]
    /\ polygon_area_km2(polygons[1]) = polygon_area_km2(polygons[2])
    /\ polygon_area_km2(polygons[1]) > 0
    /\ main_poly = polygons[1]

\* C4: a ring whose area computation fails is skipped without the failure
\* reaching the caller, the rings after it are still evaluated, and the
\* result is the one obtained from the sequence without the failing rings.
C4_FailuresSkipped ==
    pc = "chosen" =>
        /\ exc = "none"
        /\ main_poly = choose_largest_polygon(SelectSeq(polygons, NotRaising), {})

\* the first ring fails and the second one is selected
C4_Witness ==
    /\ pc = "chosen"
    /\ Len(polygons) = 2
    /\ polygons[1] \in raises
    /\ polygons[2] \notin raises
    /\ main_poly = polygons[2]

\* C5: on an empty sequence, or when the area computation fails for every
\* candidate, choose_largest_polygon returns the empty result and raises
\* nothing.
C5_NoPolygon ==
    pc = "chosen" /\ Succeeded = {} => main_poly = <<>> /\ exc = "none"

\* every candidate of a non-empty sequence fails
C5_Witness ==
    /\ pc = "chosen"
    /\ polygons # <<>>
    /\ Succeeded = {}
    /\ main_poly = <<>>

\* C6: a sequence holding a single valid ring yields that ring whatever its
\* area, an area of exactly 0 included.
C6_SingleRing ==
    pc = "chosen" /\ Len(polygons) = 1 /\ polygons[1] \notin raises
        => main_poly = polygons[1]

\* a single ring of area 0 is returned
C6_Witness ==
    /\ pc = "chosen"
    /\ Len(polygons) = 1
    /\ polygons[1] \notin raises
    /\ polygon_area_km2(polygons[1]) = 0
    /\ main_poly = polygons[1]

\* C7 as stated: whenever extraction yields at least one ring, the selection
\* returns a non-empty ring that is one of the extracted rings.
C7_AlwaysSelects ==
    pc = "chosen" /\ polygons # <<>>
        => main_poly # <<>> /\ main_poly \in RangeOf(polygons)

\* C7 amended: whenever extraction yields at least one ring and the area
\* computation succeeds for at least one of them, the selection returns a
\* non-empty ring that is one of the extracted rings whose area was computed.
C7_SelectsWhenAreaComputable ==
    pc = "chosen" /\ polygons # <<>> /\ Succeeded # {}
        => /\ main_poly # <<>>
           /\ main_poly \in RangeOf(polygons)
           /\ main_poly \notin raises

\* two rings extracted, one of them failing, the other selected
C7_Witness ==
    /\ pc = "chosen"
    /\ Len(polygons) = 2
    /\ Cardinality(raises) = 1
    /\ main_poly \in RangeOf(polygons)
    /\ main_poly \notin raises

----------------------------------------------------------------------------
(* Viewport: imagens.py plot_with_basemap lines 182-187 and                *)
(* compute_zoom_from_bbox_meters lines 155-167 (same text in main.py).     *)
(* Lengths are integers in units of 1/260 m, so that 15% of the spans used *)
(* and the spans whose padded length meets a breakpoint are exact.         *)
Unit == 13 * 20
M(metres) == metres * Unit

Max(a, b) == IF a >= b THEN a ELSE b

\* variant: the breakpoints are exclusive upper bounds
compute_zoom_exclusive(minx, miny, maxx, maxy) ==
    LET span == Max(maxx - minx, maxy - miny)
    IN  IF span < M(5000) THEN 15
        ELSE IF span < M(20000) THEN 14
        ELSE IF span < M(80000) THEN 13
        ELSE IF span < M(300000) THEN 12
        ELSE IF span < M(800000) THEN 11
        ELSE 10

compute_zoom_from_bbox_meters(minx, miny, maxx, maxy) ==
    LET span == Max(maxx - minx, maxy - miny)
    IN  IF span <= M(5000) THEN 15
        ELSE IF span <= M(20000) THEN 14
        ELSE IF span <= M(80000) THEN 13
        ELSE IF span <= M(300000) THEN 12
        ELSE IF span <= M(800000) THEN 11
        ELSE 10

\* variant: the fixed padding is never substituted
padding_ge(span) == IF span >= 0 THEN (span \div 20) * 3 ELSE M(2000)

\* lines 183-184: (max - min) * 0.15 if (max - min) > 0 else 2000
padding(span) == IF span > 0 THEN (span \div 20) * 3 ELSE M(2000)

\* line 185
padded_bbox(b) ==
    LET dx == padding(b[3] - b[1])
        dy == padding(b[4] - b[2])
    IN  <<b[1] - dx, b[2] - dy, b[3] + dx, b[4] + dy>>

\* the bounding boxes the model plots: widths and heights whose padded
\* length is below, at and just above each breakpoint, and zero
Breakpoints == { 5000, 20000, 80000, 300000, 800000 }
SpanPaddedTo(metres) == (M(metres) \div 13) * 10
Spans ==
    { 0, SpanPaddedTo(4000), SpanPaddedTo(1000000) }
    \cup { SpanPaddedTo(bp) : bp \in Breakpoints }
    \cup { SpanPaddedTo(bp) + 20 : bp \in Breakpoints }
Origins == { 0, -M(900000) }
TotalBounds == { <<x, 0, x + w, h>> : x \in Origins, w \in Spans, h \in Spans }

bbox_span(b) == Max(b[3] - b[1], b[4] - b[2])

InitView ==
    /\ total_bounds = <<0, 0, 0, 0>>
    /\ bbox = <<0, 0, 0, 0>>
    /\ zoom = 0
    /\ prev_span = 0
    /\ prev_zoom = 0
    /\ IdleGeo
    /\ IdleName
    /\ IdleRun
    /\ IdleNet
    /\ IdleVideo
    /\ IdleImg
    /\ IdleCopies

\* plot_with_basemap lines 182-187, called once per image (imagens.main line 382)
PlotWithBasemap ==
    /\ \E b \in TotalBounds :
          /\ total_bounds' = b
          /\ bbox' = padded_bbox(b)
          /\ zoom' = LET pb == padded_bbox(b)
                     IN  compute_zoom_from_bbox_meters(pb[1], pb[2], pb[3], pb[4])
    /\ prev_span' = bbox_span(bbox)
    /\ prev_zoom' = zoom
    /\ UNCHANGED <<geoVars, nameVars, runVars, netVars, videoVars, imgVars, copyVars>>

NextView == PlotWithBasemap

SpecView == InitView /\ [][NextView]_vars

\* C8: the zoom is the step function of max(padded width, padded height)
\* with inclusive upper bounds 5000 -> 15, 20000 -> 14, 80000 -> 13,
\* 300000 -> 12, 800000 -> 11, else 10; it lies in 10..15 and does not
\* increase when the span grows from one plot to the next.
C8_ZoomSteps ==
    zoom # 0 =>
        LET span == bbox_span(bbox)
        IN  /\ zoom \in 10..15
            /\ zoom = 15 <=> span <= M(5000)
            /\ zoom = 14 <=> M(5000) < span /\ span <= M(20000)
            /\ zoom = 13 <=> M(20000) < span /\ span <= M(80000)
            /\ zoom = 12 <=> M(80000) < span /\ span <= M(300000)
            /\ zoom = 11 <=> M(300000) < span /\ span <= M(800000)
            /\ zoom = 10 <=> M(800000) < span
            /\ prev_zoom # 0 /\ prev_span <= span => zoom <= prev_zoom

\* a padded span of exactly 20000 m plotted after one of exactly 5000 m
C8_Witness ==
    /\ zoom = 14
    /\ bbox_span(bbox) = M(20000)
    /\ prev_zoom = 15
    /\ prev_span = M(5000)

\* C9: each axis is padded on both sides by 15% of its own span, or by
\* 2000 m when its span is zero, so the padded box contains the original
\* box and has strictly positive width and height.
C9_Padding ==
    zoom # 0 =>
        LET b == total_bounds
            Axis(lo, hi, plo, phi) ==
                /\ lo - plo = phi - hi
                /\ hi > lo => 20 * (lo - plo) = 3 * (hi - lo)
                /\ hi = lo => lo - plo = M(2000)
                /\ plo <= lo /\ hi <= phi
                /\ phi - plo > 0
        IN  /\ Axis(b[1], b[3], bbox[1], bbox[3])
            /\ Axis(b[2], b[4], bbox[2], bbox[4])

\* a box of zero width and positive height has been padded
C9_Witness ==
    /\ zoom # 0
    /\ total_bounds[3] = total_bounds[1]
    /\ total_bounds[4] > total_bounds[2]
    /\ bbox[3] - bbox[1] = M(4000)
    /\ bbox[4] - bbox[2] > total_bounds[4] - total_bounds[2]

----------------------------------------------------------------------------
(* Normalizer: video.py safe_get_name, lines 105-112.                      *)
(* A JSON value is a record: ty is "absent" (the key is not in the         *)
(* mapping), "none" (null), "str" or "int".  A resulting string is the     *)
(* list of the pieces an f-string joins.                                   *)
Absent   == [ty |-> "absent", s |-> "", n |-> 0]
PyNone   == [ty |-> "none", s |-> "", n |-> 0]
JStr(x)   == [ty |-> "str", s |-> x, n |-> 0]
JInt(x)  == [ty |-> "int", s |-> "", n |-> x]

\* rec.get(k) and rec.get(k, default)
get(r, k) == IF r[k].ty = "absent" THEN PyNone ELSE r[k]
get_default(r, k, d) == IF r[k].ty = "absent" THEN d ELSE r[k]

\* variant: `if v is not None`
truthy_not_none(v) == v.ty # "none"

\* `if v:`
truthy(v) ==
    CASE v.ty = "str" -> v.s # ""
      [] v.ty \in {"int", "float"} -> v.n # 0
      [] v.ty = "dict" -> v.n # 0
      [] OTHER -> FALSE

\* str(v)
str(v) ==
    CASE v.ty = "str" -> v.s
      [] v.ty = "int" -> ToString(v.n)
      [] OTHER -> "None"

NameKeys == <<"concelho", "local", "nome", "location", "municipio">>

RECURSIVE name_loop(_, _)
name_loop(r, i) ==
    IF i > Len(NameKeys)
    THEN IF truthy(get(r, "freguesia")) /\ truthy(get(r, "concelho"))
         THEN <<str(get(r, "freguesia")), " (", str(get(r, "concelho")), ")">>
         ELSE <<str(get_default(r, "id", JStr("Incêndio")))>>
    ELSE LET v == get(r, NameKeys[i])
         IN  IF truthy(v) THEN <<str(v)>> ELSE name_loop(r, i + 1)

safe_get_name(r) == name_loop(r, 1)

\* the raw records the model normalizes
RawRecords ==
    { [concelho  |-> c, local |-> l, nome |-> n, location |-> o, municipio |-> m,
       freguesia |-> f, id |-> i] :
         c \in { Absent, PyNone, JStr(""), JStr("A") },
         l \in { Absent, JStr(""), JStr("B"), JInt(7) },
         n \in { Absent, JStr(""), JStr("C") },
         o \in { Absent, JStr("D") },
         m \in { Absent, PyNone, JStr("E") },
         f \in { Absent, JStr("F") },
         i \in { Absent, PyNone, JStr(""), JStr("x1"), JInt(12) } }

InitName ==
    /\ npc = "start"
    /\ rec \in RawRecords
    /\ name = <<>>
    /\ IdleInt
    /\ IdleTime
    /\ IdleGeo
    /\ IdleView
    /\ IdleRun
    /\ IdleNet
    /\ IdleVideo
    /\ IdleImg
    /\ IdleCopies

\* name = safe_get_name(rec)   (create_incident_slide line 427)
SafeGetName ==
    /\ npc = "start"
    /\ name' = safe_get_name(rec)
    /\ npc' = "done"
    /\ UNCHANGED <<rec, keys, num, nerr, tempo, ts_fail>>
    /\ UNCHANGED <<geoVars, viewVars, runVars, netVars, videoVars, imgVars, copyVars>>

NextName == SafeGetName

SpecName == InitName /\ [][NextName]_vars

\* a value that is present and not empty
NonEmpty(v) == v.ty = "int" \/ (v.ty = "str" /\ v.s # "")

\* C10: the name is the value of the first key, in the order concelho,
\* local, nome, location, municipio, that is present with a non-empty value;
\* the keys after it have no influence.
C10_FirstNameKeyWins ==
    npc = "done" =>
        \A i \in 1..Len(NameKeys) :
            /\ NonEmpty(rec[NameKeys[i]])
            /\ \A j \in 1..(i - 1) : ~NonEmpty(rec[NameKeys[j]])
            => name = <<str(rec[NameKeys[i]])>>

\* concelho = "A" and local = "B" resolve to "A"
C10_Witness ==
    /\ npc = "done"
    /\ rec.concelho = JStr("A")
    /\ rec.local = JStr("B")
    /\ name = <<"A">>

\* C11: when no name key holds a present, non-empty value, the name is the
\* raw id if the id is present and non-empty, and the literal placeholder
\* otherwise; the name is never the empty string.
C11_NameFallback ==
    npc = "done" /\ (\A i \in 1..Len(NameKeys) : ~NonEmpty(rec[NameKeys[i]])) =>
        /\ NonEmpty(rec.id) => name = <<str(rec.id)>>
        /\ ~NonEmpty(rec.id) => name = <<"Incêndio">>
        /\ name # <<"">>

----------------------------------------------------------------------------
(* Normalizer: video.py safe_get_int, lines 114-126.                       *)
(* A float value keeps its magnitude in tenths in n; "obj" is a JSON       *)
(* object or array.                                                        *)
JFloat(tenths) == [ty |-> "float", s |-> "", n |-> tenths]
JObj == [ty |-> "obj", s |-> "", n |-> 0]
JDict(members) == [ty |-> "dict", s |-> "", n |-> members]   \* an object of n members

\* the characters of the text values the model uses
Chars(s) ==
    CASE s = "12"   -> <<"1", "2">>
      [] s = "120"  -> <<"1", "2", "0">>
      [] s = "-5"   -> <<"-", "5">>
      [] s = " 8 "  -> <<" ", "8", " ">>
      [] s = "3.7"  -> <<"3", ".", "7">>
      [] s = "-3.7" -> <<"-", "3", ".", "7">>
      [] s = "abc"  -> <<"a", "b", "c">>
      [] s = "nan"  -> <<"n", "a", "n">>
      [] s = "inf"  -> <<"i", "n", "f">>
      [] OTHER      -> <<>>

DigitChars == <<"0", "1", "2", "3", "4", "5", "6", "7", "8", "9">>
IsDigit(c) == \E i \in 1..Len(DigitChars) : DigitChars[i] = c
DigitVal(c) == (CHOOSE i \in 1..Len(DigitChars) : DigitChars[i] = c) - 1
AllDigits(cs) == \A i \in 1..Len(cs) : IsDigit(cs[i])

RECURSIVE digits_value(_, _)
digits_value(cs, acc) ==
    IF cs = <<>> THEN acc
    ELSE digits_value(Tail(cs), acc * 10 + DigitVal(Head(cs)))

\* int() and float() ignore the white space around the text
RECURSIVE lstrip(_)
lstrip(cs) == IF cs # <<>> /\ Head(cs) = " " THEN lstrip(Tail(cs)) ELSE cs
RECURSIVE rstrip(_)
rstrip(cs) ==
    IF cs # <<>> /\ cs[Len(cs)] = " "
    THEN rstrip(SubSeq(cs, 1, Len(cs) - 1)) ELSE cs
str_strip(cs) == rstrip(lstrip(cs))

sign_of(cs) == IF cs # <<>> /\ Head(cs) = "-" THEN -1 ELSE 1
unsigned(cs) == IF cs # <<>> /\ Head(cs) \in {"-", "+"} THEN Tail(cs) ELSE cs

\* int(text): optional sign, then at least one digit and nothing else
int_text_ok(cs) ==
    LET b == unsigned(str_strip(cs)) IN b # <<>> /\ AllDigits(b)
int_text(cs) ==
    sign_of(str_strip(cs)) * digits_value(unsigned(str_strip(cs)), 0)

\* float(text): digits with at most one point, or nan / inf
dot_at(b) ==
    IF \E i \in 1..Len(b) : b[i] = "."
    THEN CHOOSE i \in 1..Len(b) : b[i] = "." /\ \A j \in 1..(i - 1) : b[j] # "."
    ELSE Len(b) + 1
int_part(b)  == SubSeq(b, 1, dot_at(b) - 1)
frac_part(b) == SubSeq(b, dot_at(b) + 1, Len(b))
float_text_kind(cs) ==
    LET b == unsigned(str_strip(cs))
    IN  CASE b = <<"n", "a", "n">> -> "nan"
          [] b = <<"i", "n", "f">> -> "inf"
          [] /\ AllDigits(int_part(b))
             /\ AllDigits(frac_part(b))
             /\ Len(int_part(b)) + Len(frac_part(b)) > 0 -> "finite"
          [] OTHER -> "bad"
\* the value of float(text), in tenths
float_text(cs) ==
    LET b == unsigned(str_strip(cs))
    IN  sign_of(str_strip(cs)) *
        (digits_value(int_part(b), 0) * 10
           + IF frac_part(b) = <<>> THEN 0 ELSE DigitVal(frac_part(b)[1]))

\* variant: rounding down
trunc_floor(tenths) == tenths \div 10

\* int(x) of a float x given in tenths: truncation toward zero
trunc(tenths) ==
    IF tenths >= 0 THEN tenths \div 10 ELSE -((-tenths) \div 10)

\* the exception int(v) raises, "none" if it returns
py_int_exc(v) ==
    CASE v.ty = "str" -> IF int_text_ok(Chars(v.s)) THEN "none" ELSE "ValueError"
      [] v.ty \in {"int", "float"} -> "none"
      [] OTHER -> "TypeError"
py_int(v) ==
    CASE v.ty = "str"   -> int_text(Chars(v.s))
      [] v.ty = "float" -> trunc(v.n)
      [] OTHER          -> v.n

\* the exception int(float(v)) raises, "none" if it returns
py_int_float_exc(v) ==
    CASE v.ty = "str" ->
            LET kind == float_text_kind(Chars(v.s))
            IN  CASE kind = "finite" -> "none"
                  [] kind = "inf"    -> "OverflowError"
                  [] OTHER           -> "ValueError"
      [] v.ty \in {"int", "float"} -> "none"
      [] OTHER -> "TypeError"
py_int_float(v) ==
    CASE v.ty = "str"   -> trunc(float_text(Chars(v.s)))
      [] v.ty = "float" -> trunc(v.n)
      [] OTHER          -> v.n

\* variant: `except ValueError`
except_ValueError(e) == e = "ValueError"

\* `except Exception` catches every exception
except_Exception(e) == e # "none"

IntDefault == 0

\* the loop `for k in keys` of safe_get_int; exc is the exception that
\* leaves the function, "none" when it returns val
RECURSIVE int_loop(_, _, _, _)
int_loop(r, ks, i, default) ==
    IF i > Len(ks) THEN [val |-> default, exc |-> "none"]
    ELSE LET v == get(r, ks[i])
         IN  IF v.ty = "none" THEN int_loop(r, ks, i + 1, default)
             ELSE IF py_int_exc(v) = "none"
                  THEN [val |-> py_int(v), exc |-> "none"]
             ELSE IF ~except_Exception(py_int_exc(v))
                  THEN [val |-> default, exc |-> py_int_exc(v)]
             ELSE IF py_int_float_exc(v) = "none"
                  THEN [val |-> py_int_float(v), exc |-> "none"]
             ELSE IF ~except_Exception(py_int_float_exc(v))
                  THEN [val |-> default, exc |-> py_int_float_exc(v)]
             ELSE int_loop(r, ks, i + 1, default)

safe_get_int(r, ks, default) == int_loop(r, ks, 1, default)

\* the key lists of the three counts (create_incident_slide lines 429-431)
KeyLists ==
    { <<"operacionais", "man", "oper">>,
      <<"terrestres", "terrain", "terrestre">>,
      <<"aereos", "aerial", "aerials">> }

\* the raw values of a count field
NumValues ==
    { Absent, PyNone, JObj,
      JInt(0), JInt(12), JInt(-5), JFloat(37), JFloat(-37),
      JStr("12"), JStr("-5"), JStr(" 8 "), JStr("3.7"), JStr("-3.7"),
      JStr("abc"), JStr(""), JStr("nan"), JStr("inf") }

InitInt ==
    /\ npc = "start"
    /\ keys \in KeyLists
    /\ rec \in [RangeOf(keys) -> NumValues]
    /\ name = <<>>
    /\ num = 0
    /\ nerr = "none"
    /\ IdleTime
    /\ IdleGeo
    /\ IdleView
    /\ IdleRun
    /\ IdleNet
    /\ IdleVideo
    /\ IdleImg
    /\ IdleCopies

\* oper = safe_get_int(rec, [...], 0)   (create_incident_slide lines 429-431)
SafeGetInt ==
    /\ npc = "start"
    /\ num' = safe_get_int(rec, keys, IntDefault).val
    /\ nerr' = safe_get_int(rec, keys, IntDefault).exc
    /\ npc' = "done"
    /\ UNCHANGED <<rec, name, keys, tempo, ts_fail>>
    /\ UNCHANGED <<geoVars, viewVars, runVars, netVars, videoVars, imgVars, copyVars>>

NextInt == SafeGetInt

SpecInt == InitInt /\ [][NextInt]_vars

\* the values int() accepts, the values only float() accepts, and the
\* integer each of them stands for
IntegerLike ==
    { JInt(0), JInt(12), JInt(-5), JStr("12"), JStr("-5"), JStr(" 8 ") }
FloatLike == { JFloat(37), JFloat(-37), JStr("3.7"), JStr("-3.7") }
Resolved(v) ==
    CASE v \in {JInt(0)} -> 0
      [] v \in {JInt(12), JStr("12")} -> 12
      [] v \in {JInt(-5), JStr("-5")} -> -5
      [] v = JStr(" 8 ") -> 8
      [] v \in {JFloat(37), JStr("3.7")} -> 3
      [] v \in {JFloat(-37), JStr("-3.7")} -> -3
Parsable(v) == v \in IntegerLike \cup FloatLike

\* C12: safe_get_int never raises; it returns the integer of the first key
\* whose value parses as an integer or, failing that, as a float truncated
\* toward zero, and the default 0 when no key holds a parsable value
\* (absent, null, not numeric).
C12_IntOrFloatOrDefault ==
    npc = "done" =>
        /\ nerr = "none"
        /\ (\A i \in 1..Len(keys) : ~Parsable(rec[keys[i]])) => num = 0
        /\ \A i \in 1..Len(keys) :
               /\ Parsable(rec[keys[i]])
               /\ \A j \in 1..(i - 1) : ~Parsable(rec[keys[j]])
               => num = Resolved(rec[keys[i]])

\* "abc" is skipped and "-3.7" resolves to -3
C12_Witness ==
    /\ npc = "done"
    /\ rec[keys[1]] = JStr("abc")
    /\ rec[keys[2]] = JStr("-3.7")
    /\ num = -3
    /\ nerr = "none"

\* C13: the counts of a normalized record are non-negative integers for
\* every raw value.
C13_CountsNonNegative == npc = "done" => num >= 0

----------------------------------------------------------------------------
(* Normalizer: video.py safe_get_time, lines 139-164.                      *)
(* The mapping under dateTime is flattened: rec.dateTime of type "obj" is  *)
(* a dict whose entries are rec.sec and rec.seconds.  Epochs are seconds;  *)
(* the local time zone is taken to be UTC.                                 *)

\* the largest integer of the model stands for the epochs past the year
\* 9999, on which datetime.fromtimestamp raises
FarFuture == 2147483647

\* datetime.fromtimestamp(e) raises: out of range, or the platform's
\* localtime refuses the value (F)
fromtimestamp_raises(e, F) == e >= FarFuture \/ e \in F

SecondsPerDay == 86400

\* datetime.fromtimestamp(e).strftime("%d-%m-%Y %H:%M"), for the epochs of
\* December 1969 and January 1970
strftime(e) ==
    LET days == e \div SecondsPerDay
        secs == e % SecondsPerDay
    IN  [kind |-> "strftime", txt |-> "", txt2 |-> "",
         day    |-> IF days >= 0 THEN days + 1 ELSE 32 + days,
         month  |-> IF days >= 0 THEN 1 ELSE 12,
         year   |-> IF days >= 0 THEN 1970 ELSE 1969,
         hour   |-> secs \div 3600,
         minute |-> (secs % 3600) \div 60]

\* the result str(v)
time_text(v) == [NoTempo EXCEPT !.kind = "str", !.txt = str(v)]
\* the result f"{date} {str(hour)}"
date_hour(d, h) ==
    [NoTempo EXCEPT !.kind = "date_hour", !.txt = str(d), !.txt2 = str(h)]

\* isinstance(v, (int, float))
is_number(v) == v.ty \in {"int", "float"}

\* a or b
py_or(a, b) == IF truthy(a) THEN a ELSE b

\* dt.get(k) for the dict dt = rec.get("dateTime")
dt_get(r, k) == get(r, k)

\* variant: the numeric fields in the opposite order
NumericKeys_reversed == <<"timestamp", "time", "started">>

NumericKeys == <<"started", "time", "timestamp">>

TextKeys ==
    <<"date", "data_inicio", "data", "datetime", "created_at", "start", "hour">>

RECURSIVE text_loop(_, _)
text_loop(r, i) ==
    IF i > Len(TextKeys) THEN time_text(get_default(r, "id", JStr("")))
    ELSE LET v == get(r, TextKeys[i])
         IN  IF truthy(v)
             THEN IF TextKeys[i] = "hour" /\ truthy(get(r, "date"))
                  THEN date_hour(get(r, "date"), v)
                  ELSE time_text(v)
             ELSE text_loop(r, i + 1)

RECURSIVE numeric_loop(_, _, _)
numeric_loop(r, i, F) ==
    IF i > Len(NumericKeys) THEN text_loop(r, 1)
    ELSE LET v == get(r, NumericKeys[i])
         IN  IF is_number(v) /\ ~fromtimestamp_raises(py_int(v), F)
             THEN strftime(py_int(v))
             ELSE numeric_loop(r, i + 1, F)

safe_get_time(r, F) ==
    LET dt  == get(r, "dateTime")
        sec == py_or(dt_get(r, "sec"), dt_get(r, "seconds"))
    IN  IF /\ dt.ty = "obj"
           /\ is_number(sec)
           /\ sec.n > 0
           /\ ~fromtimestamp_raises(py_int(sec), F)
        THEN strftime(py_int(sec))
        ELSE numeric_loop(r, 1, F)

\* the raw records whose time the model resolves
TimeRecords ==
    { [dateTime |-> d, sec |-> s, seconds |-> ss,
       started |-> st, time |-> ti, timestamp |-> ts,
       date |-> da, data_inicio |-> di, data |-> Absent, datetime |-> Absent,
       created_at |-> cr, start |-> Absent, hour |-> ho, id |-> i] :
         d  \in { Absent, PyNone, JStr("2024"), JObj },
         s  \in { Absent, JInt(0), JInt(60), JFloat(605), JStr("60"), JInt(FarFuture) },
         ss \in { Absent, JInt(90061), JInt(-60) },
         st \in { Absent, JInt(0), JInt(-60), JStr("5"), JInt(FarFuture) },
         ti \in { Absent, JFloat(605) },
         ts \in { Absent, JInt(90061) },
         da \in { Absent, JStr(""), JStr("2024-08-01"), JInt(0) },
         di \in { Absent, JStr("ontem") },
         cr \in { Absent, JStr("2024-08-02T10:00") },
         ho \in { Absent, JStr("14:30") },
         i  \in { Absent, PyNone, JInt(12), JStr("x1") } }

\* the epochs the platform may refuse: the negative ones
RefusableEpochs == { -60 }

InitTime ==
    /\ npc = "start"
    /\ rec \in { r \in TimeRecords :
                   r.dateTime.ty # "obj" => r.sec = Absent /\ r.seconds = Absent }
    /\ ts_fail \in SUBSET RefusableEpochs
    /\ tempo = NoTempo
    /\ name = <<>>
    /\ IdleInt
    /\ IdleGeo
    /\ IdleView
    /\ IdleRun
    /\ IdleNet
    /\ IdleVideo
    /\ IdleImg
    /\ IdleCopies

\* tempo = safe_get_time(rec)   (create_incident_slide line 433)
SafeGetTime ==
    /\ npc = "start"
    /\ tempo' = safe_get_time(rec, ts_fail)
    /\ npc' = "done"
    /\ UNCHANGED <<rec, name, keys, num, nerr, ts_fail>>
    /\ UNCHANGED <<geoVars, viewVars, runVars, netVars, videoVars, imgVars, copyVars>>

NextTime == SafeGetTime

SpecTime == InitTime /\ [][NextTime]_vars

\* an epoch value that fromtimestamp accepts
EpochOK(v) ==
    /\ v.ty \in {"int", "float"}
    /\ py_int(v) \notin ts_fail
    /\ py_int(v) < FarFuture
\* the epoch seconds of the structured dateTime object
DtSec == IF truthy(rec.sec) THEN rec.sec ELSE rec.seconds
DtSucceeds == rec.dateTime.ty = "obj" /\ EpochOK(DtSec) /\ DtSec.n > 0
NumSucceeds(k) == rec[k].ty # "absent" /\ EpochOK(rec[k])
NoNumSucceeds == \A k \in {"started", "time", "timestamp"} : ~NumSucceeds(k)

\* C14: the timestamp is that of the first source that succeeds: the epoch
\* seconds of the dateTime object, then started, time, timestamp, then the
\* text fields in their order; the identifier as a string when none does.
C14_FirstTimeSourceWins ==
    LET nk == <<"started", "time", "timestamp">>
        tk == <<"date", "data_inicio", "data", "datetime", "created_at",
                "start", "hour">>
    IN  npc = "done" =>
        /\ DtSucceeds => tempo = strftime(py_int(DtSec))
        /\ ~DtSucceeds =>
             \A i \in 1..Len(nk) :
                 /\ NumSucceeds(nk[i])
                 /\ \A j \in 1..(i - 1) : ~NumSucceeds(nk[j])
                 => tempo = strftime(py_int(rec[nk[i]]))
        /\ ~DtSucceeds /\ NoNumSucceeds =>
             /\ \A i \in 1..Len(tk) :
                    /\ truthy(rec[tk[i]])
                    /\ \A j \in 1..(i - 1) : ~truthy(rec[tk[j]])
                    => tempo.kind # "strftime" /\ tempo.txt = str(rec[tk[i]])
             /\ (\A i \in 1..Len(tk) : ~truthy(rec[tk[i]])) =>
                    tempo = time_text(IF rec.id = Absent THEN JStr("") ELSE rec.id)

\* dateTime.sec is 0, dateTime.seconds cannot be converted, started is not a
\* number, time = 60.5 is: the result is 01-01-1970 00:01 although a date
\* text exists
C14_Witness ==
    /\ npc = "done"
    /\ rec.dateTime = JObj
    /\ rec.sec = JInt(0)
    /\ rec.seconds = JInt(-60)
    /\ -60 \in ts_fail
    /\ rec.started = JStr("5")
    /\ rec.time = JFloat(605)
    /\ rec.date = JStr("2024-08-01")
    /\ tempo.kind = "strftime"
    /\ tempo.day = 1 /\ tempo.hour = 0 /\ tempo.minute = 1

\* C15: when the text fields are reached and both date and hour are
\* non-empty, the timestamp is "<date> <hour>".
C15_DateHourComposed ==
    npc = "done" /\ ~DtSucceeds /\ NoNumSucceeds
                 /\ truthy(rec.date) /\ truthy(rec.hour)
        => tempo = date_hour(rec.date, rec.hour)

----------------------------------------------------------------------------
(* The KML fetch: gt90json.py fetch_kml_if_url, lines 110-129.  Texts are  *)
(* lists of characters.                                                    *)

\* variant: no case folding
lower_char_same(c) == c

\* s.lower(), per character
lower_char(c) ==
    CASE c = "H" -> "h" [] c = "T" -> "t" [] c = "P" -> "p" [] c = "S" -> "s"
      [] OTHER -> c
lower(cs) == [i \in 1..Len(cs) |-> lower_char(cs[i])]

\* s.startswith(prefix) and s.startswith((p1, p2))
startswith(cs, prefix) ==
    Len(cs) >= Len(prefix) /\ SubSeq(cs, 1, Len(prefix)) = prefix
http_prefix  == <<"h", "t", "t", "p", ":", "/", "/">>
https_prefix == <<"h", "t", "t", "p", "s", ":", "/", "/">>
is_url(cs) ==
    startswith(lower(cs), http_prefix) \/ startswith(lower(cs), https_prefix)

\* the function: val is the returned text, exc the exception leaving it
fetch_kml_if_url(v, d) ==
    IF v = <<>> THEN [val |-> <<>>, exc |-> "none"]
    ELSE LET s == str_strip(v)
         IN  IF is_url(s)
             THEN IF d.exc = "none" THEN [val |-> d.text, exc |-> "none"]
                  ELSE IF except_Exception(d.exc)
                       THEN [val |-> <<>>, exc |-> "none"]
                       ELSE [val |-> <<>>, exc |-> d.exc]
             ELSE [val |-> s, exc |-> "none"]

\* the values of a kmlVost / kml field
UrlTexts ==
    { <<"h", "t", "t", "p", ":", "/", "/", "x">>,
      <<" ", "H", "T", "T", "P", "S", ":", "/", "/", "x", " ">>,
      <<"H", "t", "t", "p", "s", ":", "/", "/">> }
PlainTexts ==
    { <<" ">>,
      <<"<", "k", ">">>,
      <<" ", "<", "k", ">", " ", " ">>,
      <<"<", "k", " ", "a", ">">>,
      <<"h", "t", "t", "p", ":", "/", "x">>,
      <<"x", "h", "t", "t", "p", ":", "/", "/">>,
      <<"f", "t", "p", ":", "/", "/", "x">>,
      <<"H", "T", "T", "P">> }
KmlValues == { <<>> } \cup UrlTexts \cup PlainTexts

\* what get_with_retries does: it returns a response with this text, or
\* it raises
Downloads ==
    { [exc |-> "none", text |-> <<"<", "k", ">">>],
      [exc |-> "none", text |-> <<" ", "<", "k", ">">>],
      [exc |-> "none", text |-> <<>>],
      [exc |-> "HTTPError", text |-> <<>>],
      [exc |-> "ConnectionError", text |-> <<>>],
      [exc |-> "ValueError", text |-> <<>>] }

InitFetch ==
    /\ fpc = "start"
    /\ maybe_url_or_kml \in KmlValues
    /\ download \in Downloads
    /\ kml_text = <<>>
    /\ fexc = "none"
    /\ gpc = "idle"
    /\ max_retries = 0
    /\ attempt = 0
    /\ gets = 0
    /\ status = 0
    /\ wait = 0
    /\ gexc = "none"
    /\ IdleGeo
    /\ IdleView
    /\ IdleName
    /\ IdleRun
    /\ IdleVideo
    /\ IdleImg
    /\ IdleCopies

\* kml_string = fetch_kml_if_url(raw_kml)   (main line 280)
FetchKml ==
    /\ fpc = "start"
    /\ kml_text' = fetch_kml_if_url(maybe_url_or_kml, download).val
    /\ fexc' = fetch_kml_if_url(maybe_url_or_kml, download).exc
    /\ fpc' = "done"
    /\ UNCHANGED <<maybe_url_or_kml, download, gpc, max_retries, attempt, gets,
                   status, wait, gexc>>
    /\ UNCHANGED <<geoVars, viewVars, nameVars, runVars, videoVars, imgVars, copyVars>>

NextFetch == FetchKml

SpecFetch == InitFetch /\ [][NextFetch]_vars

\* the text v without the blanks at its ends
Trimmed(v) ==
    IF \A i \in 1..Len(v) : v[i] = " " THEN <<>>
    ELSE LET a == CHOOSE i \in 1..Len(v) : v[i] # " " /\ \A j \in 1..(i - 1) : v[j] = " "
             b == CHOOSE i \in 1..Len(v) : v[i] # " " /\ \A j \in (i + 1)..Len(v) : v[j] = " "
         IN  SubSeq(v, a, b)

\* C21: fetch_kml_if_url never raises; for a value that, trimmed, starts
\* with http:// or https:// in any letter case it returns the downloaded
\* text, or the empty text when the download fails; for any other non-empty
\* value it returns the value trimmed; for the empty value the empty text.
C21_FetchOrPassThrough ==
    fpc = "done" =>
        /\ fexc = "none"
        /\ maybe_url_or_kml \in UrlTexts =>
             kml_text = IF download.exc = "none" THEN download.text ELSE <<>>
        /\ maybe_url_or_kml \in PlainTexts => kml_text = Trimmed(maybe_url_or_kml)
        /\ maybe_url_or_kml = <<>> => kml_text = <<>>

\* " HTTPS://x " is downloaded, the download fails, the result is empty
C21_Witness ==
    /\ fpc = "done"
    /\ maybe_url_or_kml = <<" ", "H", "T", "T", "P", "S", ":", "/", "/", "x", " ">>
    /\ download.exc = "ConnectionError"
    /\ kml_text = <<>>
    /\ fexc = "none"

----------------------------------------------------------------------------
(* The run over the API response: gt90json.py main, lines 234-337.         *)
(* An incident is known by its position in data.                           *)

MaxIncidents == 2

MIN_OPERACIONAIS == 90

\* int(v or 0) inside try / except Exception: 0   (lines 238-240, 259-262)
int_or_zero(v) ==
    LET x == py_or(v, JInt(0))
    IN  IF py_int_exc(x) = "none" THEN py_int(x) ELSE 0

\* inc.get("dateTime", {}).get("sec") raises when dateTime is present and
\* is not a mapping (line 247)
dateTime_get_exc(inc) ==
    IF inc.dateTime.ty \in {"absent", "obj"} THEN "none" ELSE "AttributeError"
unix_ts(inc) ==
    IF inc.dateTime.ty = "absent" THEN PyNone ELSE get(inc, "sec")

\* datetime.fromtimestamp(unix_ts) raises (line 249)
time_started_exc(inc) ==
    IF ~truthy(unix_ts(inc)) THEN "none"
    ELSE IF ~is_number(unix_ts(inc)) THEN "TypeError"
    ELSE IF fromtimestamp_raises(py_int(unix_ts(inc)), {}) THEN "OverflowError"
    ELSE "none"
time_started(inc) ==
    IF truthy(unix_ts(inc)) THEN strftime(py_int(unix_ts(inc)))
    ELSE time_text(JStr("null"))

\* the exception that leaves one iteration of the loop at line 245: lines
\* 247 and 249 are outside every try
uncaught(inc) ==
    IF dateTime_get_exc(inc) # "none" THEN dateTime_get_exc(inc)
    ELSE time_started_exc(inc)

\* inc.get("kmlVost") or inc.get("kml") or ""   (line 273); the incidents of
\* the model carry the text in kml, as its characters, <<>> when there is none
raw_kml(inc) == inc.kml

\* area_km2 = None
AreaNone == [null |-> TRUE, km |-> 0, micro |-> 0]

\* variant: rounding to whole km2
round0(twice) == [null |-> FALSE, km |-> twice \div 2, micro |-> 0]

\* round(area_km2, 6) of the area given as twice the km2: the km and the
\* millionths of a km2
round6(twice) ==
    [null |-> FALSE, km |-> twice \div 2, micro |-> (twice % 2) * 500000]

\* rings the extraction can return for a KML text
T_big   == << <<0, 0>>, <<2, 0>>, <<2, 2>>, <<0, 0>> >>
T_small == << <<0, 0>>, <<1, 0>>, <<1, 1>>, <<0, 0>> >>
NoExtraction == [exc |-> "none", polys |-> <<>>]
Extractions ==
    { [exc |-> "none", polys |-> <<>>],
      [exc |-> "none", polys |-> <<T_small>>],
      [exc |-> "none", polys |-> <<T_small, T_big>>],
      [exc |-> "UnicodeEncodeError", polys |-> <<>>] }

\* the downloads of a run: a text, an empty text, a failure
RunDownloads ==
    { d \in Downloads : d.text \in { <<>>, <<"<", "k", ">">> }
                        /\ d.exc \in { "none", "ConnectionError" } }
\* get_with_retries is called for a URL only, the extraction for a
\* non-empty text only
DownloadsOf(inc) ==
    IF raw_kml(inc) # <<>> /\ is_url(str_strip(raw_kml(inc)))
    THEN RunDownloads ELSE { NoDownload }
ExtractionsOf(inc, d) ==
    IF raw_kml(inc) # <<>> /\ fetch_kml_if_url(raw_kml(inc), d).val # <<>>
    THEN Extractions ELSE { NoExtraction }

\* lines 278-307: the KML of one incident, for the download d, the
\* extraction x and the failing rings R
kml_area(inc, d, x, R) ==
    LET fetched == IF raw_kml(inc) # <<>>
                   THEN fetch_kml_if_url(raw_kml(inc), d).val ELSE <<>>
        tried == fetched # <<>>
        main_poly_ == IF tried /\ x.exc = "none"
                      THEN choose_largest_polygon(x.polys, R) ELSE <<>>
        computed == main_poly_ # <<>> /\ ~polygon_area_raises(main_poly_, R)
    IN  [kml_string |-> fetched,
         polys      |-> IF tried THEN x.polys ELSE <<>>,
         exc        |-> IF tried THEN x.exc ELSE "none",
         main_poly  |-> main_poly_,
         null       |-> ~computed,
         twice      |-> IF computed THEN polygon_area_km2(main_poly_) ELSE 0]

\* the record of one incident (lines 309-326)
reg(i, inc, area_km2) ==
    [id |-> i,
     data_inicio  |-> time_started(inc),
     operacionais |-> int_or_zero(get_default(inc, "man", JInt(0))),
     area_km2     |-> IF area_km2.null THEN AreaNone ELSE round6(area_km2.twice),
     tem_kml      |-> raw_kml(inc) # <<>>]

\* the incidents of the model
IncidentKmls ==
    { <<>>, <<"<", "k", ">">>, <<"h", "t", "t", "p", ":", "/", "/", "x">> }
Incidents ==
    { [man |-> m, dateTime |-> d, sec |-> s, kml |-> k] :
        m \in { JInt(90), JInt(91), JStr("120") },
        d \in { JObj },
        s \in { JInt(60), JStr("60") },
        k \in IncidentKmls }
    \cup
    { [man |-> m, dateTime |-> d, sec |-> Absent, kml |-> k] :
        m \in { JInt(90), JInt(91), JStr("120") },
        d \in { Absent, PyNone },
        k \in IncidentKmls }

InitRun ==
    /\ rpc = "filter"
    /\ data \in SeqsUpTo(Incidents, MaxIncidents)
    /\ ri = 1
    /\ candidatos = <<>>
    /\ registos = <<>>
    /\ rexc = "none"
    /\ total = 0
    /\ last_kml = <<>>
    /\ polys = <<>>
    /\ area_fails = {}
    /\ xexc = "none"
    /\ main_polys = <<>>
    /\ IdleGeo
    /\ IdleView
    /\ IdleName
    /\ IdleNet
    /\ IdleVideo
    /\ IdleImg
    /\ IdleCopies

\* one iteration of `for inc in data` (lines 236-242)
FilterStep ==
    /\ rpc = "filter"
    /\ ri <= Len(data)
    /\ candidatos' =
         IF int_or_zero(get_default(data[ri], "man", JInt(0))) > MIN_OPERACIONAIS
         THEN Append(candidatos, ri) ELSE candidatos
    /\ ri' = ri + 1
    /\ UNCHANGED <<rpc, data, registos, rexc, total, last_kml, polys, area_fails,
                   xexc, main_polys>>
    /\ UNCHANGED <<geoVars, viewVars, nameVars, netVars, videoVars, imgVars, copyVars>>

\* the filter loop is over, `for inc in candidatos` begins (line 245)
FilterDone ==
    /\ rpc = "filter"
    /\ ri > Len(data)
    /\ rpc' = "loop"
    /\ ri' = 1
    /\ UNCHANGED <<data, candidatos, registos, rexc, total, last_kml, polys,
                   area_fails, xexc, main_polys>>
    /\ UNCHANGED <<geoVars, viewVars, nameVars, netVars, videoVars, imgVars, copyVars>>

\* one iteration of `for inc in candidatos` (lines 245-326)
ProcessIncident ==
    /\ rpc = "loop"
    /\ ri <= Len(candidatos)
    /\ LET inc == data[candidatos[ri]]
       IN  IF uncaught(inc) # "none"
           THEN /\ rpc' = "crashed"
                /\ rexc' = uncaught(inc)
                /\ UNCHANGED <<ri, registos, last_kml, polys, area_fails, xexc,
                               main_polys>>
           ELSE \E d \in DownloadsOf(inc) :
                \E x \in ExtractionsOf(inc, d) :
                \E R \in SUBSET RangeOf(x.polys) :
                  LET k == kml_area(inc, d, x, R)
                  IN  /\ registos' = Append(registos, reg(candidatos[ri], inc, k))
                      /\ main_polys' = Append(main_polys, k.main_poly)
                      /\ last_kml' = k.kml_string
                      /\ polys' = k.polys
                      /\ area_fails' = R \cap RangeOf(k.polys)
                      /\ xexc' = k.exc
                      /\ ri' = ri + 1
                      /\ UNCHANGED <<rpc, rexc>>
    /\ UNCHANGED <<data, candidatos, total>>
    /\ UNCHANGED <<geoVars, viewVars, nameVars, netVars, videoVars, imgVars, copyVars>>

\* json.dump(resultado, f)   (lines 328-337)
WriteJson ==
    /\ rpc = "loop"
    /\ ri > Len(candidatos)
    /\ rpc' = "written"
    /\ total' = Len(registos)
    /\ UNCHANGED <<data, ri, candidatos, registos, rexc, last_kml, polys, area_fails,
                   xexc, main_polys>>
    /\ UNCHANGED <<geoVars, viewVars, nameVars, netVars, videoVars, imgVars, copyVars>>

NextRun == FilterStep \/ FilterDone \/ ProcessIncident \/ WriteJson

SpecRun == InitRun /\ [][NextRun]_vars

\* an incident whose man, read as an integer, exceeds the threshold
IsCandidate(inc) ==
    \/ inc.man.ty = "int" /\ inc.man.n > 90
    \/ inc.man = JStr("120")
\* an incident that is not malformed
WellFormed(inc) ==
    /\ inc.dateTime.ty \in {"absent", "obj"}
    /\ inc.sec.ty \in {"absent", "int"}

\* C16: a malformed incident never prevents the others from being
\* processed: the run is never ended by an exception, and it finishes with
\* a record for every well-formed candidate of the response.
C16_MalformedNotFatal ==
    /\ rpc # "crashed"
    /\ rpc = "written" =>
         \A i \in 1..Len(data) :
             IsCandidate(data[i]) /\ WellFormed(data[i]) =>
                 \E j \in 1..Len(registos) : registos[j].id = i

----------------------------------------------------------------------------
(* Claims on the node lookup and the token loop of                         *)
(* extract_polygons_from_kml_string.                                       *)

\* positions of the coordinates elements of the document in namespace n
NodesIn(n) == { i \in 1..Len(kml_string.ns) : kml_string.ns[i] = n }
Ascending(s) == \A i \in 1..(Len(s) - 1) : s[i] < s[i + 1]

C17_OneNamespace ==
    \A i \in RangeOf(coords_nodes), j \in RangeOf(coords_nodes) :
        kml_string.ns[i] = kml_string.ns[j]
C17_Lookup ==
    ExtractParse /\ pc' = "nodes" =>
        /\ Ascending(coords_nodes')
        /\ NodesIn("kml22") # {} => RangeOf(coords_nodes') = NodesIn("kml22")
        /\ NodesIn("kml22") = {} => RangeOf(coords_nodes') = NodesIn("plain")

\* C17: the nodes used are those of the KML 2.2 namespace when there is at
\* least one, and those of the search without namespace exactly when there
\* is none; the nodes in use never come from both searches.
C17_NamespacedFirst == [](C17_OneNamespace) /\ [][C17_Lookup]_vars

\* a document with a plain node followed by a KML 2.2 node: only the second
\* node is used
C17_Witness ==
    /\ pc = "nodes"
    /\ kml_string.ns = <<"plain", "kml22">>
    /\ coords_nodes = <<2>>
    /\ polygons = <<>>

\* a token "lon,lat" or "lon,lat,alt" whose first two parts are numbers,
\* and the number a part stands for
IsPoint(tok) ==
    /\ Len(tok) >= 2
    /\ tok[1] \in {"0", "2"}
    /\ tok[2] \in {"0", "2"}
NumberOf(part) == IF part = "0" THEN 0 ELSE 2

C18_TokenRule ==
    ReadToken =>
        /\ IsPoint(t') => poly' = Append(poly, <<NumberOf(t'[1]), NumberOf(t'[2])>>)
        /\ ~IsPoint(t') => poly' = poly
        /\ pc' = "tokens"
        /\ polygons' = polygons
C18_NodeRule ==
    NodeEnd =>
        /\ coords_nodes' = Tail(coords_nodes)
        /\ \/ polygons' = polygons
           \/ /\ Len(polygons') = Len(polygons) + 1
              /\ SubSeq(polygons', 1, Len(polygons)) = polygons
              /\ SubSeq(polygons'[Len(polygons')], 1, Len(poly)) = poly

\* C18: a token whose first two parts are floats adds the point (lon, lat)
\* at the end of the node's points, whatever follows the second part; any
\* other token changes nothing and the node goes on; the ring of a node
\* starts with the node's points in token order and is added after the
\* rings of the nodes before it, the nodes being taken in document order.
C18_TokensInOrder ==
    [](Ascending(coords_nodes)) /\ [][C18_TokenRule /\ C18_NodeRule]_vars

\* three tokens read, one of them dropped, the last one "2,0,9" giving the
\* point (2, 0) after the point (0, 0)
C18_Witness ==
    /\ pc = "tokens"
    /\ ntokens = 3
    /\ t = <<"2", "0", "9">>
    /\ poly = << <<0, 0>>, <<2, 0>> >>

\* a closed ring started k points later, and a ring walked backwards
rotate(r, k) ==
    LET n == Len(r) - 1
    IN  [i \in 1..Len(r) |-> r[((i - 1 + k) % n) + 1]]
reverse(r) == [i \in 1..Len(r) |-> r[Len(r) + 1 - i]]

\* C20: the area of a ring is never negative, and for a closed ring it is
\* the same for every cyclic rotation of its points and for the reversed
\* winding order, for every ring the extraction returns.  (Areas are exact
\* integers here: twice the km2.)
C20_AreaInvariant ==
    pc = "extracted" =>
      \A k \in 1..Len(polygons) :
        LET r == polygons[k]
        IN  /\ polygon_area_km2(r) >= 0
            /\ \A j \in 1..(Len(r) - 1) :
                   polygon_area_km2(rotate(r, j)) = polygon_area_km2(r)
            /\ polygon_area_km2(reverse(r)) = polygon_area_km2(r)

\* the ring selected has a positive area, and walking it backwards or
\* starting it one point later gives another sequence of points
C20_Witness ==
    /\ pc = "chosen"
    /\ main_poly # <<>>
    /\ main_poly \notin raises
    /\ polygon_area_km2(main_poly) > 0
    /\ reverse(main_poly) # main_poly
    /\ rotate(main_poly, 1) # main_poly

----------------------------------------------------------------------------
(* Claims on the summary written by gt90json.main.                         *)

\* the positions of the incidents whose man exceeds 90
ManOver90 == { i \in 1..Len(data) : data[i].man \in { JInt(91), JStr("120") } }
RunEnded == rpc \in { "written", "crashed" }

\* C22: the run exports exactly one record for every incident whose man is
\* strictly greater than 90 (man = 90 is left out), in the order of the API
\* response, with or without KML or polygon, and total is the number of
\* exported records.
C22_OneRecordPerCandidate ==
    RunEnded =>
        /\ rpc = "written"
        /\ { registos[j].id : j \in 1..Len(registos) } = ManOver90
        /\ \A j \in 1..(Len(registos) - 1) : registos[j].id < registos[j + 1].id
        /\ total = Len(registos)

\* the reasons the claim lists for an incident without polygon
NoKml        == ~registos'[Len(registos')].tem_kml
EmptyText    == last_kml' = <<>>
NoRing       == polys' = <<>>
AllRingsFail == RangeOf(polys') \subseteq area_fails'

C23_RecordInv ==
    \A j \in 1..Len(registos) :
        LET r == registos[j]
        IN  /\ r.area_km2.null <=> main_polys[j] = <<>>
            /\ r.area_km2.null => r.area_km2 = AreaNone
            /\ ~r.area_km2.null =>
                 /\ r.area_km2.micro \in 0..999999
                 /\ r.area_km2.km * 2 + r.area_km2.micro \div 500000
                      = polygon_area_km2(main_polys[j])
            /\ \/ r.data_inicio = time_text(JStr("null"))
               \/ /\ r.data_inicio.kind = "strftime"
                  /\ r.data_inicio.day \in 1..31
                  /\ r.data_inicio.month \in 1..12
                  /\ r.data_inicio.hour \in 0..23
                  /\ r.data_inicio.minute \in 0..59
C23_NoPolygonRule ==
    ProcessIncident /\ rpc' = "loop" =>
        /\ NoKml \/ EmptyText \/ NoRing \/ AllRingsFail
             => main_polys'[Len(main_polys')] = <<>>
        /\ main_polys'[Len(main_polys')] = <<>>
             => NoKml \/ EmptyText \/ NoRing \/ AllRingsFail \/ xexc' # "none"

\* C23: every record has area_km2 null or the area rounded to 6 decimals,
\* null exactly when no polygon was selected for the incident, which is the
\* case without KML, with an empty fetched text, without ring and when the
\* area of every ring fails; data_inicio is a dd-mm-YYYY HH:MM time or the
\* text "null".
C23_AreaAndStart == [](C23_RecordInv) /\ [][C23_NoPolygonRule]_vars

\* a written summary with a record whose area is 6160.5 km2 and whose start
\* is 01-01-1970 00:01, and a record without polygon and without start
C23_Witness ==
    /\ rpc = "written"
    /\ Len(registos) = 2
    /\ registos[1].area_km2 = [null |-> FALSE, km |-> 6160, micro |-> 500000]
    /\ registos[1].data_inicio.kind = "strftime"
    /\ registos[1].data_inicio.minute = 1
    /\ registos[2].area_km2 = AreaNone
    /\ registos[2].tem_kml
    /\ registos[2].data_inicio = time_text(JStr("null"))

----------------------------------------------------------------------------
(* get_with_retries, gt90json.py lines 49-95.  One step is one iteration   *)
(* of `while True`, the sleep included.                                    *)

MaxGets == 5

DefaultMaxRetries == 3

backoff == 5

SuccessCodes == { 200, 201, 202, 203, 204, 304 }
RetryCodes   == { 429, 403 }

\* Response.raise_for_status raises HTTPError for the 4xx and 5xx codes and
\* returns for every other code
raise_for_status_raises(code) == code >= 400 /\ code < 600

\* the status codes the server answers with
StatusCodes == { 200, 204, 304, 403, 429, 404, 500, 206, 300 }

\* the Retry-After header: none, empty, seconds, a date
RetryAfterValues == { Absent, JStr(""), JStr("12"), JStr("abc") }

\* lines 77-85: the wait of a 429 / 403 response
retry_wait(ra, att) ==
    IF truthy(ra) /\ py_int_exc(ra) = "none" THEN py_int(ra) ELSE backoff * att

InitRetry ==
    /\ gpc = "request"
    /\ max_retries \in 1..DefaultMaxRetries
    /\ attempt = 0
    /\ gets = 0
    /\ status = 0
    /\ wait = 0
    /\ gexc = "none"
    /\ fpc = "idle"
    /\ maybe_url_or_kml = <<>>
    /\ download = NoDownload
    /\ kml_text = <<>>
    /\ fexc = "none"
    /\ IdleGeo
    /\ IdleView
    /\ IdleName
    /\ IdleRun
    /\ IdleVideo
    /\ IdleImg
    /\ IdleCopies

\* lines 57-69: SESSION.get raises
GetRaises ==
    /\ gpc = "request"
    /\ gets < MaxGets
    /\ attempt' = attempt + 1
    /\ gets' = gets + 1
    /\ status' = 0
    /\ IF attempt' >= max_retries
       THEN /\ gpc' = "raised"                                  \* raise
            /\ gexc' = "RequestException"
            /\ wait' = wait
       ELSE /\ wait' = backoff * attempt'                       \* time.sleep(wait)
            /\ UNCHANGED <<gpc, gexc>>
    /\ UNCHANGED <<max_retries, fpc, maybe_url_or_kml, download, kml_text, fexc>>
    /\ UNCHANGED <<geoVars, viewVars, nameVars, runVars, videoVars, imgVars, copyVars>>

\* lines 57-95: SESSION.get returns a response
GetResponse ==
    /\ gpc = "request"
    /\ gets < MaxGets
    /\ attempt' = attempt + 1
    /\ gets' = gets + 1
    /\ \E code \in StatusCodes, ra \in RetryAfterValues :
         /\ status' = code
         /\ IF code \in SuccessCodes
            THEN /\ gpc' = "returned"                           \* return r
                 /\ UNCHANGED <<wait, gexc>>
            ELSE IF code \in RetryCodes
            THEN IF attempt' >= max_retries
                 THEN /\ gpc' = "raised"                        \* r.raise_for_status()
                      /\ gexc' = "HTTPError"
                      /\ wait' = wait
                 ELSE /\ wait' = retry_wait(ra, attempt')       \* time.sleep(wait)
                      /\ UNCHANGED <<gpc, gexc>>
            ELSE IF raise_for_status_raises(code)
                 THEN /\ gpc' = "raised"
                      /\ gexc' = "HTTPError"
                      /\ wait' = wait
                 ELSE UNCHANGED <<gpc, gexc, wait>>             \* the loop goes on
    /\ UNCHANGED <<max_retries, fpc, maybe_url_or_kml, download, kml_text, fexc>>
    /\ UNCHANGED <<geoVars, viewVars, nameVars, runVars, videoVars, imgVars, copyVars>>

NextRetry == GetRaises \/ GetResponse

SpecRetry == InitRetry /\ [][NextRetry]_vars

C24_StatusRule ==
    GetResponse =>
        /\ gpc' \in { "request", "returned", "raised" }
        /\ status' \in { 200, 201, 202, 203, 204, 304 } => gpc' = "returned"
        /\ status' \in { 429, 403 } /\ attempt' < max_retries
             => gpc' = "request" /\ wait' > 0
        /\ status' \notin { 200, 201, 202, 203, 204, 304, 429, 403 }
             => gpc' = "raised"

\* C24: a response with status 200, 201, 202, 203, 204 or 304 is returned,
\* one with status 429 or 403 is retried after a wait, and one with any
\* other status makes the call raise instead of being retried.
C24_ReturnRetryOrRaise == [][C24_StatusRule]_vars

C25_LastAttemptRaises ==
    (GetRaises \/ GetResponse) /\ attempt' >= max_retries
        => gpc' \in { "returned", "raised" }
C25_GetsBounded ==
    /\ gets <= max_retries
    /\ gpc \in { "returned", "raised" } => gets >= 1

\* C25: whatever the server does, the call issues at least one and at most
\* max_retries GET requests: the attempt that reaches max_retries without
\* success raises instead of sleeping and retrying.
C25_AtMostMaxRetries == [](C25_GetsBounded) /\ [][C25_LastAttemptRaises]_vars

----------------------------------------------------------------------------
(* The video: video.py main, lines 612-672.  An incident of the input is   *)
(* known by its position in vdata; a frame records the slide it fades and  *)
(* its place in that slide's fade.                                         *)
MaxRecs     == 2   \* incidents in INPUT_JSON
SlideFrames == 2   \* frames kept of one slide (hold_frames + 2 * fade_frames)

OperKeys == <<"operacionais", "man", "oper">>     \* lines 633 and 637

VideoMinOper == 1                                  \* line 634: if oper > 1

\* the records of INPUT_JSON: the count under "operacionais" or under "man";
\* img tells whether map_image_path_for_id finds a file for the incident
OperValues == { Absent, JInt(1), JInt(50), JInt(91), JStr("120") }

VideoRecs ==
    { [operacionais |-> v, man |-> Absent, oper |-> Absent, img |-> b] :
        v \in OperValues, b \in BOOLEAN }
    \cup { [operacionais |-> Absent, man |-> JInt(91), oper |-> Absent, img |-> b] :
        b \in BOOLEAN }

\* RESUMO_JSON: no file, a file json.load rejects, the object {}, a summary
Resumos ==
    { NoResumo,
      [isfile |-> TRUE, readable |-> FALSE, json |-> NoSummary],
      [isfile |-> TRUE, readable |-> TRUE, json |-> JDict(0)],
      [isfile |-> TRUE, readable |-> TRUE, json |-> JDict(3)] }

\* lines 614-621
load_summary(file) ==
    IF file.isfile /\ file.readable THEN file.json ELSE NoSummary

oper_of(r) == safe_get_int(r, OperKeys, IntDefault).val

\* variant: the threshold of the other programs
keeps_over_90(oper) == oper > MIN_OPERACIONAIS

keeps(oper) == oper > VideoMinOper                 \* line 634

\* lines 631-635
RECURSIVE filter_loop(_, _)
filter_loop(d, i) ==
    IF i > Len(d) THEN <<>>
    ELSE (IF keeps(oper_of(d[i])) THEN <<i>> ELSE <<>>) \o filter_loop(d, i + 1)

\* variant: a later element of equal key overtakes
stays_ahead_strict(placed, later) == placed > later

\* sorted(..., reverse=True) is stable: an element stays ahead of every
\* later element whose key is not larger
stays_ahead(placed, later) == placed >= later

RECURSIVE sort_insert(_, _, _)
sort_insert(d, s, x) ==
    IF s = <<>> THEN <<x>>
    ELSE IF stays_ahead(oper_of(d[s[1]]), oper_of(d[x]))
         THEN <<s[1]>> \o sort_insert(d, Tail(s), x)
         ELSE <<x>> \o s

\* line 637: sorted(filtered, key=..., reverse=True) over the positions f
RECURSIVE sorted_reverse(_, _)
sorted_reverse(d, f) ==
    IF f = <<>> THEN <<>>
    ELSE sort_insert(d, sorted_reverse(d, SubSeq(f, 1, Len(f) - 1)), f[Len(f)])

\* lines 594-609: the frames of one slide, in order
make_frames_for_slide(slide, id) ==
    [k \in 1..SlideFrames |-> [slide |-> slide, id |-> id, k |-> k]]

InitVideo ==
    /\ vpc = "start"
    /\ resumo \in Resumos
    /\ summary = NoSummary
    /\ vdata \in SeqsUpTo(VideoRecs, MaxRecs)
    /\ incidents = <<>>
    /\ vi = 0
    /\ all_frames = <<>>
    /\ IdleIcon
    /\ IdleGeo
    /\ IdleView
    /\ IdleName
    /\ IdleRun
    /\ IdleNet
    /\ IdleImg
    /\ IdleCopies

\* lines 613-641: load, filter, sort, and return if there is nothing to show
LoadFilterSort ==
    /\ vpc = "start"
    /\ summary' = load_summary(resumo)
    /\ incidents' = sorted_reverse(vdata, filter_loop(vdata, 1))
    /\ vpc' = IF incidents' = <<>> /\ ~truthy(summary') THEN "returned" ELSE "summary"
    /\ UNCHANGED <<resumo, vdata, vi, all_frames>>
    /\ UNCHANGED <<emoji, ICON_CACHE, icon_key, target_height, icon>>
    /\ UNCHANGED <<geoVars, viewVars, nameVars, runVars, netVars, imgVars, copyVars>>

\* lines 643-650: if summary: the frames of the summary slide
SummarySlide ==
    /\ vpc = "summary"
    /\ all_frames' = IF truthy(summary)
                     THEN all_frames \o make_frames_for_slide("summary", 0)
                     ELSE all_frames
    /\ vi' = 1
    /\ vpc' = "loop"
    /\ UNCHANGED <<resumo, summary, vdata, incidents>>
    /\ UNCHANGED <<emoji, ICON_CACHE, icon_key, target_height, icon>>
    /\ UNCHANGED <<geoVars, viewVars, nameVars, runVars, netVars, imgVars, copyVars>>

\* lines 653-669: one iteration of the loop over the incidents
IncidentSlides ==
    /\ vpc = "loop"
    /\ vi <= Len(incidents)
    /\ LET id == incidents[vi]
           frames == make_frames_for_slide("info", id)
           img_frames == IF vdata[id].img THEN make_frames_for_slide("image", id) ELSE <<>>
       IN  all_frames' = all_frames \o frames \o img_frames
    /\ vi' = vi + 1
    /\ UNCHANGED <<vpc, resumo, summary, vdata, incidents>>
    /\ UNCHANGED <<emoji, ICON_CACHE, icon_key, target_height, icon>>
    /\ UNCHANGED <<geoVars, viewVars, nameVars, runVars, netVars, imgVars, copyVars>>

\* lines 671-689: the loop is over; the frames are written unless there are none
WriteVideo ==
    /\ vpc = "loop"
    /\ vi > Len(incidents)
    /\ vpc' = IF all_frames = <<>> THEN "returned" ELSE "written"
    /\ UNCHANGED <<resumo, summary, vdata, incidents, vi, all_frames>>
    /\ UNCHANGED <<emoji, ICON_CACHE, icon_key, target_height, icon>>
    /\ UNCHANGED <<geoVars, viewVars, nameVars, runVars, netVars, imgVars, copyVars>>

NextVideo ==
    \/ LoadFilterSort
    \/ SummarySlide
    \/ IncidentSlides
    \/ WriteVideo

SpecVideo == InitVideo /\ [][NextVideo]_vars

VideoEnded == vpc \in { "written", "returned" }

\* C26: video.main keeps only the incidents with more than 90 operacionais:
\* no frame of the video belongs to an incident whose count is 90 or less.
C26_OnlyOver90 ==
    \A i \in 1..Len(all_frames) :
        all_frames[i].id # 0 => oper_of(vdata[all_frames[i].id]) > 90

\* the incidents main keeps, and the order the video must show them in
Kept == { i \in 1..Len(vdata) : keeps(oper_of(vdata[i])) }

Shown == { all_frames[i].id : i \in 1..Len(all_frames) } \ { 0 }

FirstFrame(id) ==
    CHOOSE i \in 1..Len(all_frames) :
        /\ all_frames[i].id = id
        /\ \A j \in 1..(i - 1) : all_frames[j].id # id

FramesOf(id) == { i \in 1..Len(all_frames) : all_frames[i].id = id }

\* the frames of `id` are one block from its first frame on: the information
\* slide, then the image slide if there is an image
C27_Block(id) ==
    LET expected == make_frames_for_slide("info", id)
                    \o (IF vdata[id].img THEN make_frames_for_slide("image", id) ELSE <<>>)
        first == FirstFrame(id)
    IN  /\ FramesOf(id) = first..(first + Len(expected) - 1)
        /\ \A k \in 1..Len(expected) : all_frames[first + k - 1] = expected[k]

C27_Before(a, b) ==
    \/ oper_of(vdata[a]) > oper_of(vdata[b])
    \/ oper_of(vdata[a]) = oper_of(vdata[b]) /\ a < b

C27_Summary ==
    LET expected == IF truthy(summary) THEN make_frames_for_slide("summary", 0) ELSE <<>>
    IN  /\ FramesOf(0) = 1..Len(expected)
        /\ \A k \in 1..Len(expected) : all_frames[k] = expected[k]

C27_Sequence ==
    VideoEnded =>
        /\ C27_Summary
        /\ Shown = Kept
        /\ \A id \in Shown : C27_Block(id)
        /\ \A a, b \in Shown : a # b /\ C27_Before(a, b) => FirstFrame(a) < FirstFrame(b)

C27_Appends ==
    /\ Len(all_frames') >= Len(all_frames)
    /\ SubSeq(all_frames', 1, Len(all_frames)) = all_frames

\* C27: the frame sequence is the summary slide's frames when there is a
\* summary, then per kept incident, by descending operacionais and input
\* order among equals, its information frames followed at once by its image
\* frames; frames are only ever appended.
C27_FrameOrder == [](C27_Sequence) /\ [][C27_Appends]_vars

\* two kept incidents with the same count, the first with an image, in a
\* written video that starts with the summary
C27_Witness ==
    /\ vpc = "written"
    /\ truthy(summary)
    /\ \E a, b \in Shown :
          /\ a < b
          /\ oper_of(vdata[a]) = oper_of(vdata[b])
          /\ vdata[a].img

----------------------------------------------------------------------------
(* Icons: video.py load_icon_img, lines 243-265.  An image is known by its *)
(* height, 0 stands for None, and a key absent from _ICON_CACHE holds      *)
(* NotCached.                                                              *)
NotCached == -1

EMOJI_FILES == { "fire", "man", "truck", "heli", "tree" }      \* lines 38-44

\* the keys and heights the slides ask for (lines 325, 350, 470, 489)
IconKeys == { "fire", "man", "clock" }

TargetHeights == { 48, 64, 180, 220 }

EmojiStates == { "missing", "corrupt", "ok" }

\* variant: the cache is consulted only for the height it holds
cache_hit_same_height(cache, key, h) == cache[key] \in { 0, h }

cache_hit(cache, key, h) == cache[key] # NotCached              \* line 246

\* the value returned and the cache left behind
load_icon_img(cache, files, key, h) ==
    IF cache_hit(cache, key, h)
    THEN [icon |-> cache[key], cache |-> cache]                  \* line 247
    ELSE IF key \notin EMOJI_FILES                               \* lines 248-251
    THEN [icon |-> 0, cache |-> [cache EXCEPT ![key] = 0]]
    ELSE IF files[key] = "missing"                               \* lines 252-255
    THEN [icon |-> 0, cache |-> [cache EXCEPT ![key] = 0]]
    ELSE IF files[key] = "corrupt"                               \* lines 263-265
    THEN [icon |-> 0, cache |-> [cache EXCEPT ![key] = 0]]
    ELSE [icon |-> h, cache |-> [cache EXCEPT ![key] = h]]       \* lines 256-262

InitIcon ==
    /\ emoji \in [IconKeys \cap EMOJI_FILES -> EmojiStates]
    /\ ICON_CACHE = [k \in IconKeys |-> NotCached]
    /\ icon_key = ""
    /\ target_height = 0
    /\ icon = 0
    /\ IdleMain
    /\ IdleGeo
    /\ IdleView
    /\ IdleName
    /\ IdleRun
    /\ IdleNet
    /\ IdleImg
    /\ IdleCopies

\* one call load_icon_img(key, target_height=h)
LoadIcon ==
    /\ \E key \in IconKeys, h \in TargetHeights :
          LET r == load_icon_img(ICON_CACHE, emoji, key, h)
          IN  /\ icon_key' = key
              /\ target_height' = h
              /\ icon' = r.icon
              /\ ICON_CACHE' = r.cache
    /\ UNCHANGED emoji
    /\ UNCHANGED <<vpc, resumo, summary, vdata, incidents, vi, all_frames>>
    /\ UNCHANGED <<geoVars, viewVars, nameVars, runVars, netVars, imgVars, copyVars>>

NextIcon == LoadIcon

SpecIcon == InitIcon /\ [][NextIcon]_vars

\* C28: whatever calls came before, load_icon_img returns no icon or an
\* image as high as the target_height of the call.
C28_HeightAsRequested ==
    icon_key # "" => icon = 0 \/ icon = target_height

----------------------------------------------------------------------------
(* The images: imagens.py main, lines 312-410.  An incident is known by    *)
(* its position in idata.                                                  *)

\* lines 315-318: int(inc.get("man", 0)) inside try / except Exception: 0
imagens_man(inc) ==
    LET v == get_default(inc, "man", JInt(0))
    IN  IF py_int_exc(v) = "none" THEN py_int(v) ELSE 0

\* variant: 90 operacionais are enough
is_candidate_ge(man) == man >= 90

is_candidate(man) == man > 90                      \* line 319

RECURSIVE imagens_filter(_, _)
imagens_filter(d, i) ==
    IF i > Len(d) THEN <<>>
    ELSE (IF is_candidate(imagens_man(d[i])) THEN <<i>> ELSE <<>>)
         \o imagens_filter(d, i + 1)

\* lines 64-77: the copy of fetch_kml_if_url in imagens.py; d is what
\* requests.get followed by raise_for_status does
imagens_fetch_kml_if_url(v, d) ==
    IF v = <<>> THEN <<>>
    ELSE LET s == str_strip(v)
         IN  IF startswith(lower(s), http_prefix) \/ startswith(lower(s), https_prefix)
             THEN IF d.exc = "none" THEN d.text ELSE <<>>
             ELSE s

\* inc.get("kmlVost") or inc.get("kml") or ""   (line 344)
imagens_raw_kml(inc) == inc.kml

\* plot_with_basemap and plot_fallback: the first draws, the first raises
\* and the second draws, both raise
Plots == { "basemap", "fallback", "failed" }

\* the reasons of lines 346, 353, 360, 367, 387 and 397
SemKml        == "Sem KML (kmlVost/kml vazio)"
NaoDescarregavel == "KML presente mas nao descarregavel/empty"
SemCoordenadas == "KML sem coordenadas validas"
SemPoligono   == "Nao foi possivel escolher poligono principal"
ErroDesenhar  == "Erro a desenhar imagem"
ErroProcessar == "Erro ao processar"

\* lines 328-399: one candidate, for the download d, the extraction x, the
\* rings R whose area cannot be computed and the drawing outcome plot.
\* motivo is "" when the image was created.
imagens_process(inc, d, x, R, plot) ==
    LET raw == imagens_raw_kml(inc)
        fetched == imagens_fetch_kml_if_url(raw, d)
        chosen == choose_largest_polygon(x.polys, R)
        out(m, k, ps, mp) == [motivo |-> m, kml_string |-> k, polygons |-> ps, main_poly |-> mp]
    IN  IF raw = <<>> THEN out(SemKml, <<>>, <<>>, <<>>)
        ELSE IF fetched = <<>> THEN out(NaoDescarregavel, fetched, <<>>, <<>>)
        ELSE IF x.exc # "none" THEN out(ErroProcessar, fetched, <<>>, <<>>)
        ELSE IF x.polys = <<>> THEN out(SemCoordenadas, fetched, x.polys, <<>>)
        ELSE IF chosen = <<>> THEN out(SemPoligono, fetched, x.polys, chosen)
        ELSE IF plot = "failed" THEN out(ErroDesenhar, fetched, x.polys, chosen)
        ELSE out("", fetched, x.polys, chosen)

\* the branches of one candidate that can differ
ImgDownloadsOf(inc) ==
    IF inc.kml # <<>> /\ is_url(str_strip(inc.kml)) THEN RunDownloads ELSE { NoDownload }
ImgExtractionsOf(inc, d) ==
    IF imagens_fetch_kml_if_url(inc.kml, d) # <<>> THEN Extractions ELSE { NoExtraction }
ImgPlotsOf(x, R) ==
    IF x.exc = "none" /\ choose_largest_polygon(x.polys, R) # <<>>
    THEN Plots ELSE { "basemap" }

\* the incidents of the model
ImgIncidents ==
    { [man |-> m, kml |-> k] :
        m \in { JInt(90), JInt(91), JStr("120"), PyNone }, k \in IncidentKmls }

InitImg ==
    /\ ipc = "filter"
    /\ idata \in SeqsUpTo(ImgIncidents, MaxIncidents)
    /\ total_candidatos = 0
    /\ icandidatos = <<>>
    /\ ii = 0
    /\ imagens_criadas = <<>>
    /\ ignorados = <<>>
    /\ handled = <<>>
    /\ IdleGeo
    /\ IdleView
    /\ IdleName
    /\ IdleRun
    /\ IdleNet
    /\ IdleVideo
    /\ IdleCopies

\* lines 313-326: the filter and the empty lists
ImgFilter ==
    /\ ipc = "filter"
    /\ icandidatos' = imagens_filter(idata, 1)
    /\ total_candidatos' = Len(icandidatos')
    /\ ii' = 1
    /\ ipc' = "loop"
    /\ UNCHANGED <<idata, imagens_criadas, ignorados, handled>>
    /\ UNCHANGED <<geoVars, viewVars, nameVars, runVars, netVars, videoVars, copyVars>>

\* lines 328-399: one iteration of `for inc in candidatos`
ImgProcess ==
    /\ ipc = "loop"
    /\ ii <= Len(icandidatos)
    /\ LET inc_id == icandidatos[ii]
           inc == idata[inc_id]
       IN  \E d \in ImgDownloadsOf(inc) :
           \E x \in ImgExtractionsOf(inc, d) :
           \E R \in SUBSET RangeOf(x.polys) :
           \E plot \in ImgPlotsOf(x, R) :
             LET r == imagens_process(inc, d, x, R, plot)
             IN  /\ IF r.motivo = ""
                    THEN /\ imagens_criadas' = Append(imagens_criadas, inc_id)
                         /\ UNCHANGED ignorados
                    ELSE /\ ignorados' = Append(ignorados, <<inc_id, r.motivo>>)
                         /\ UNCHANGED imagens_criadas
                 /\ handled' = Append(handled,
                                 [id |-> inc_id, kml_string |-> r.kml_string,
                                  polygons |-> r.polygons, main_poly |-> r.main_poly])
    /\ ii' = ii + 1
    /\ UNCHANGED <<ipc, idata, total_candidatos, icandidatos>>
    /\ UNCHANGED <<geoVars, viewVars, nameVars, runVars, netVars, videoVars, copyVars>>

\* lines 401-410: the loop is over, the summary is printed
ImgResumo ==
    /\ ipc = "loop"
    /\ ii > Len(icandidatos)
    /\ ipc' = "done"
    /\ UNCHANGED <<idata, total_candidatos, icandidatos, ii, imagens_criadas,
                   ignorados, handled>>
    /\ UNCHANGED <<geoVars, viewVars, nameVars, runVars, netVars, videoVars, copyVars>>

NextImg == ImgFilter \/ ImgProcess \/ ImgResumo

SpecImg == InitImg /\ [][NextImg]_vars

\* the incidents whose man is a number, or the text of one, above 90
Over90 ==
    { i \in 1..Len(idata) :
        /\ idata[i].man.ty \in { "int", "str" }
        /\ py_int_exc(idata[i].man) = "none"
        /\ py_int(idata[i].man) > 90 }

TimesIn(s, id) == Cardinality({ k \in 1..Len(s) : s[k] = id })

IgnoredIds == [k \in 1..Len(ignorados) |-> ignorados[k][1]]

HandledOf(id) == { handled[k] : k \in { j \in 1..Len(handled) : handled[j].id = id } }

\* C29: at the end of imagens.main every incident with man > 90 is once in
\* imagens_criadas or once in ignorados with a reason, and no other
\* incident is in either; an incident of imagens_criadas had a non-empty
\* KML text, at least one ring and a selected polygon.
C29_EveryCandidateRecorded ==
    /\ ipc = "done" =>
         /\ Len(imagens_criadas) + Len(ignorados) = Cardinality(Over90)
         /\ total_candidatos = Cardinality(Over90)
         /\ \A i \in 1..Len(idata) :
              TimesIn(imagens_criadas, i) + TimesIn(IgnoredIds, i)
                = (IF i \in Over90 THEN 1 ELSE 0)
    /\ \A k \in 1..Len(ignorados) : ignorados[k][2] # ""
    /\ \A k \in 1..Len(imagens_criadas) :
         \A h \in HandledOf(imagens_criadas[k]) :
            /\ h.kml_string # <<>>
            /\ h.polygons # <<>>
            /\ h.main_poly # <<>>
            /\ h.main_poly \in RangeOf(h.polygons)

\* a finished run with an image created and an incident ignored although
\* its KML has rings
C29_Witness ==
    /\ ipc = "done"
    /\ imagens_criadas # <<>>
    /\ \E k \in 1..Len(ignorados) : ignorados[k][2] \in { SemPoligono, ErroDesenhar }

----------------------------------------------------------------------------
(* The three copies of the geometry core (gt90json.py 131-183, imagens.py  *)
(* 79-132, main.py 73-126) and the two copies of                           *)
(* compute_zoom_from_bbox_meters (imagens.py 155-167, main.py 153-165),    *)
(* each translated from its own text and called on the same input.  What   *)
(* the libraries do (ET.fromstring, findall, float, Polygon, pyproj) is    *)
(* shared.  A document is its KML text and, per <coordinates> node, the    *)
(* tokens of its text, or none if the node has no text.                    *)

\* imagens.py lines 101-108: the body of `for t in tokens`
imagens_parse_token(parts, poly_in) ==
    IF Len(parts) >= 2
    THEN IF float_raises(parts[1]) \/ float_raises(parts[2])
         THEN poly_in
         ELSE Append(poly_in, <<float(parts[1]), float(parts[2])>>)
    ELSE poly_in

RECURSIVE imagens_tokens(_, _)
imagens_tokens(tokens, poly_in) ==
    IF tokens = <<>> THEN poly_in
    ELSE imagens_tokens(Tail(tokens), imagens_parse_token(Head(tokens), poly_in))

\* imagens.py lines 109-112: the ring appended for the list poly, <<>> if none
imagens_ring(p) ==
    IF Len(p) >= 3
    THEN << IF p[1] # p[Len(p)] THEN Append(p, p[1]) ELSE p >>
    ELSE <<>>

\* imagens.py lines 95-112: `for cn in coords_nodes`
RECURSIVE imagens_nodes(_, _)
imagens_nodes(nodes, texts) ==
    IF nodes = <<>> THEN <<>>
    ELSE LET cn == texts[Head(nodes)]
         IN  (IF cn.none THEN <<>> ELSE imagens_ring(imagens_tokens(cn.tokens, <<>>)))
             \o imagens_nodes(Tail(nodes), texts)

\* imagens.py lines 90-92
imagens_coords_nodes(ns) ==
    IF findall(ns, "kml22", 1) # <<>> THEN findall(ns, "kml22", 1)
    ELSE findall(ns, "plain", 1)

\* imagens.py lines 79-113
imagens_extract_polygons_from_kml_string(d) ==
    IF d.kml.kind = "empty" THEN [exc |-> "none", polys |-> <<>>]
    ELSE IF ET_fromstring(d.kml) = "ok"
    THEN [exc |-> "none", polys |-> imagens_nodes(imagens_coords_nodes(d.kml.ns), d.texts)]
    ELSE IF ET_fromstring(d.kml) # "ParseError"
    THEN [exc |-> ET_fromstring(d.kml), polys |-> <<>>]
    ELSE IF ET_fromstring(strip(d.kml)) = "ok"
    THEN [exc |-> "none", polys |-> imagens_nodes(imagens_coords_nodes(strip(d.kml).ns), d.texts)]
    ELSE [exc |-> "none", polys |-> <<>>]

\* imagens.py lines 121-132; best is <<>> for None and <<p>> for a ring p, the
\* areas are twice the km2
RECURSIVE imagens_choose_loop(_, _, _, _)
imagens_choose_loop(ps, best, best_area, R) ==
    IF ps = <<>> THEN best
    ELSE IF polygon_area_raises(Head(ps), R)
    THEN imagens_choose_loop(Tail(ps), best, best_area, R)
    ELSE IF polygon_area_km2(Head(ps)) > best_area
    THEN imagens_choose_loop(Tail(ps), <<Head(ps)>>, polygon_area_km2(Head(ps)), R)
    ELSE imagens_choose_loop(Tail(ps), best, best_area, R)

imagens_choose_largest_polygon(ps, R) ==
    LET best == imagens_choose_loop(ps, <<>>, -2, R)
    IN  IF best = <<>> \/ best[1] = <<>> THEN <<>> ELSE best[1]

\* variant: a token whose altitude is no number is skipped too
main_parse_token_all_parts(parts, poly_in) ==
    IF Len(parts) >= 2 /\ \A k \in 1..Len(parts) : ~float_raises(parts[k])
    THEN Append(poly_in, <<float(parts[1]), float(parts[2])>>)
    ELSE poly_in

\* main.py lines 95-102: the body of `for t in tokens`
main_parse_token(parts, poly_in) ==
    IF Len(parts) >= 2
    THEN IF float_raises(parts[1]) \/ float_raises(parts[2])
         THEN poly_in
         ELSE Append(poly_in, <<float(parts[1]), float(parts[2])>>)
    ELSE poly_in

RECURSIVE main_tokens(_, _)
main_tokens(tokens, poly_in) ==
    IF tokens = <<>> THEN poly_in
    ELSE main_tokens(Tail(tokens), main_parse_token(Head(tokens), poly_in))

\* main.py lines 103-106: the ring appended for the list poly, <<>> if none
main_ring(p) ==
    IF Len(p) >= 3
    THEN << IF p[1] # p[Len(p)] THEN Append(p, p[1]) ELSE p >>
    ELSE <<>>

\* main.py lines 89-106: `for cn in coords_nodes`
RECURSIVE main_nodes(_, _)
main_nodes(nodes, texts) ==
    IF nodes = <<>> THEN <<>>
    ELSE LET cn == texts[Head(nodes)]
         IN  (IF cn.none THEN <<>> ELSE main_ring(main_tokens(cn.tokens, <<>>)))
             \o main_nodes(Tail(nodes), texts)

\* main.py lines 84-86
main_coords_nodes(ns) ==
    IF findall(ns, "kml22", 1) # <<>> THEN findall(ns, "kml22", 1)
    ELSE findall(ns, "plain", 1)

\* main.py lines 73-107
main_extract_polygons_from_kml_string(d) ==
    IF d.kml.kind = "empty" THEN [exc |-> "none", polys |-> <<>>]
    ELSE IF ET_fromstring(d.kml) = "ok"
    THEN [exc |-> "none", polys |-> main_nodes(main_coords_nodes(d.kml.ns), d.texts)]
    ELSE IF ET_fromstring(d.kml) # "ParseError"
    THEN [exc |-> ET_fromstring(d.kml), polys |-> <<>>]
    ELSE IF ET_fromstring(strip(d.kml)) = "ok"
    THEN [exc |-> "none", polys |-> main_nodes(main_coords_nodes(strip(d.kml).ns), d.texts)]
    ELSE [exc |-> "none", polys |-> <<>>]

\* main.py lines 115-126; best is <<>> for None and <<p>> for a ring p, the
\* areas are twice the km2
RECURSIVE main_choose_loop(_, _, _, _)
main_choose_loop(ps, best, best_area, R) ==
    IF ps = <<>> THEN best
    ELSE IF polygon_area_raises(Head(ps), R)
    THEN main_choose_loop(Tail(ps), best, best_area, R)
    ELSE IF polygon_area_km2(Head(ps)) > best_area
    THEN main_choose_loop(Tail(ps), <<Head(ps)>>, polygon_area_km2(Head(ps)), R)
    ELSE main_choose_loop(Tail(ps), best, best_area, R)

main_choose_largest_polygon(ps, R) ==
    LET best == main_choose_loop(ps, <<>>, -2, R)
    IN  IF best = <<>> \/ best[1] = <<>> THEN <<>> ELSE best[1]

\* main.py lines 153-165
main_compute_zoom_from_bbox_meters(minx, miny, maxx, maxy) ==
    LET span == Max(maxx - minx, maxy - miny)
    IN  IF span <= M(5000) THEN 15
        ELSE IF span <= M(20000) THEN 14
        ELSE IF span <= M(80000) THEN 13
        ELSE IF span <= M(300000) THEN 12
        ELSE IF span <= M(800000) THEN 11
        ELSE 10

\* gt90json.py lines 131-164 as one function of the document, from the
\* steps of the pipeline above
RECURSIVE gt90json_tokens(_, _)
gt90json_tokens(tokens, poly_in) ==
    IF tokens = <<>> THEN poly_in
    ELSE gt90json_tokens(Tail(tokens), parse_token(Head(tokens), poly_in))

RECURSIVE gt90json_nodes(_, _)
gt90json_nodes(nodes, texts) ==
    IF nodes = <<>> THEN <<>>
    ELSE LET cn == texts[Head(nodes)]
             p == gt90json_tokens(cn.tokens, <<>>)
         IN  (IF ~cn.none /\ ring_kept(p) THEN <<close_ring(p)>> ELSE <<>>)
             \o gt90json_nodes(Tail(nodes), texts)

gt90json_extract_polygons_from_kml_string(d) ==
    LET first == ET_fromstring(d.kml)
        second == ET_fromstring(strip(d.kml))
    IN  IF d.kml.kind = "empty" THEN [exc |-> "none", polys |-> <<>>]
        ELSE IF first = "ok" \/ (first = "ParseError" /\ second = "ok")
        THEN [exc |-> "none",
              polys |-> gt90json_nodes(select_coords_nodes(strip(d.kml)), d.texts)]
        ELSE IF first = "ParseError" THEN [exc |-> "none", polys |-> <<>>]
        ELSE [exc |-> first, polys |-> <<>>]

\* the texts of a <coordinates> node: none, no token, two points, an open
\* ring, a closed ring, a ring among tokens that are no points, a larger ring
NodeTexts ==
    { [none |-> TRUE,  tokens |-> <<>>],
      [none |-> FALSE, tokens |-> <<>>],
      [none |-> FALSE, tokens |-> << <<"0", "0">>, <<"2", "0", "9">> >>],
      [none |-> FALSE, tokens |-> << <<"0", "0">>, <<"2", "0", "9">>, <<"2", "2", "z">> >>],
      [none |-> FALSE, tokens |-> << <<"0", "0">>, <<"2", "0", "9">>, <<"2", "2", "z">>, <<"0", "0">> >>],
      [none |-> FALSE, tokens |-> << <<"0", "0">>, <<"x", "2">>, <<"2", "0", "9">>, <<"7">>, <<"2", "2", "z">> >>],
      [none |-> FALSE, tokens |-> << <<"0", "0">>, <<"2", "0", "9">>, <<"2", "2", "z">>, <<"0", "2">> >>] }

CopyDocs ==
    { [kml |-> k, texts |-> x] :
        k \in KmlTexts, x \in SeqsUpTo(NodeTexts, MaxNodes) }

Docs == { d \in CopyDocs : Len(d.texts) = Len(d.kml.ns) }

InitCopies ==
    /\ \/ /\ cpc = "kml"
          /\ doc \in Docs
          /\ cbox = <<0, 0, 0, 0>>
       \/ /\ cpc = "bbox"
          /\ doc = NoDoc
          /\ cbox \in TotalBounds
    /\ ext = [gt90json |-> NoResult, imagens |-> NoResult, main |-> NoResult]
    /\ cfails = {}
    /\ sel = [gt90json |-> <<>>, imagens |-> <<>>, main |-> <<>>]
    /\ czoom = [imagens |-> 0, main |-> 0]
    /\ IdleGeo
    /\ IdleView
    /\ IdleName
    /\ IdleRun
    /\ IdleNet
    /\ IdleVideo
    /\ IdleImg

\* extract_polygons_from_kml_string(doc) in each module
ExtractCopies ==
    /\ cpc = "kml"
    /\ ext' = [gt90json |-> gt90json_extract_polygons_from_kml_string(doc),
               imagens  |-> imagens_extract_polygons_from_kml_string(doc),
               main     |-> main_extract_polygons_from_kml_string(doc)]
    /\ cpc' = "extracted"
    /\ UNCHANGED <<doc, cfails, sel, cbox, czoom>>
    /\ UNCHANGED <<geoVars, viewVars, nameVars, runVars, netVars, videoVars, imgVars>>

\* choose_largest_polygon in each module, on the rings its module extracted
ChooseCopies ==
    /\ cpc = "extracted"
    /\ \E R \in SUBSET RangeOf(ext.gt90json.polys) :
          /\ cfails' = R
          /\ sel' = [gt90json |-> choose_largest_polygon(ext.gt90json.polys, R),
                     imagens  |-> imagens_choose_largest_polygon(ext.imagens.polys, R),
                     main     |-> main_choose_largest_polygon(ext.main.polys, R)]
    /\ cpc' = "chosen"
    /\ UNCHANGED <<doc, ext, cbox, czoom>>
    /\ UNCHANGED <<geoVars, viewVars, nameVars, runVars, netVars, videoVars, imgVars>>

\* compute_zoom_from_bbox_meters(*cbox) in imagens.py and main.py
ZoomCopies ==
    /\ cpc = "bbox"
    /\ czoom' = [imagens |-> compute_zoom_from_bbox_meters(cbox[1], cbox[2], cbox[3], cbox[4]),
                 main    |-> main_compute_zoom_from_bbox_meters(cbox[1], cbox[2], cbox[3], cbox[4])]
    /\ cpc' = "zoomed"
    /\ UNCHANGED <<doc, ext, cfails, sel, cbox>>
    /\ UNCHANGED <<geoVars, viewVars, nameVars, runVars, netVars, videoVars, imgVars>>

NextCopies == ExtractCopies \/ ChooseCopies \/ ZoomCopies

SpecCopies == InitCopies /\ [][NextCopies]_vars

\* C30: the three copies of extract_polygons_from_kml_string return the
\* same rings (or raise the same exception) for every KML text, the three
\* copies of choose_largest_polygon select the same ring, and the two
\* copies of compute_zoom_from_bbox_meters return the same zoom.
C30_CopiesAgree ==
    /\ cpc \in { "extracted", "chosen" } =>
         /\ ext.gt90json = ext.imagens
         /\ ext.imagens = ext.main
    /\ cpc = "chosen" =>
         /\ sel.gt90json = sel.imagens
         /\ sel.imagens = sel.main
    /\ cpc = "zoomed" => czoom.imagens = czoom.main

\* two rings of different area were extracted after skipping tokens that
\* are no points, the area of one cannot be computed, the other is selected
C30_Witness ==
    /\ cpc = "chosen"
    /\ Len(ext.main.polys) = 2
    /\ ext.main.polys[1] # ext.main.polys[2]
    /\ cfails # {}
    /\ sel.imagens # <<>>
    /\ \E i \in 1..Len(doc.texts) : Len(doc.texts[i].tokens) = 5

====
